---- MODULE Spec2Model ----
(***************************************************************************)
(* Batch routing engine of OSRM-Batch-Routing: the job registry            *)
(* (JobService), the batch dispatcher (JobService.processJob with          *)
(* OSRMService.calculateBatchRoutes) and the result writer                 *)
(* (ResultService.saveGeoJSONResults).                                     *)
(*                                                                         *)
(* The server is a single-threaded event loop: code between two awaits     *)
(* runs without interleaving, so every action below is one such segment    *)
(* (from a call or a resumed await up to the next await or the return).    *)
(***************************************************************************)
EXTENDS Integers, Sequences, FiniteSets, TLC

\* ---------------------------------------------------------------- bounds
\* longest upload (number of data rows) the model explores
MaxRows == 4
\* cleanupJob calls that may be in flight for one job at the same time
MaxCleanupInflight == 1
\* longest upload explored when two jobs run side by side
MaxRowsHousekeeping == 1
\* MAX_JOBS_KEPT of the configuration explored with two jobs
MaxJobsKeptHousekeeping == 1
\* client calls (cancelJob, cleanupJob) in flight together with two jobs
MaxInflightCalls == 1
\* most messages the WebSocket clients are sent altogether
MaxSent == 3
\* most vertices of a route's line
MaxVertices == 4
\* most coordinates given to validateCoordinatesInFrance
MaxCoordinates == 3
\* longest coordinate field (in characters) given to the extraction alone
MaxFieldLen == 2

\* ------------------------------------------------- configuration values
\* process.env['BATCH_SIZE'] (B-window)
BATCH_SIZE == 3
\* process.env['OSRM_MAX_CONCURRENT'] (K-window)
OSRM_MAX_CONCURRENT == 2
\* process.env['MAX_JOBS_KEPT'] || '100'
MAX_JOBS_KEPT == 100

\* the job ids (uuidv4 values) of the model
JobIds == {1, 2}
FileIds == {"f1"}
\* a row of the upload, by what happens to it in the dispatcher:
\*   "bad"   parseFloat gives NaN for one of its four coordinate fields
\*   "xform" the projection of the origin or the destination fails
\*   "ok"    the row becomes a routing request
RowKinds == {"bad", "xform", "ok"}
Terminal == {"completed", "failed"}
NoError == "none"
CancelMsg == "Job cancelled by user"
ReadMsg == "Failed to read file data"

VARIABLES
    files,        \* FileService.files: fileId -> [rowCount]
    uploadDir,    \* upload directory on disk: fileId -> rows of the file
    jobs,         \* JobService.jobs: jobId -> BatchJob
    jobResults,   \* JobService.jobResults: jobId -> RouteResult[]
    resultsDir,   \* results directory: path -> the file at that path
    proc,         \* per job id: the dispatcher's position and locals
    cancelAt,     \* per job id: cancelJob calls suspended at each await
    cleanupAt,    \* per job id: cleanupJob calls suspended at each await
    published,    \* per job id: messages handed to global.broadcastJobUpdate
    freeIds,      \* the ids uuidv4() has not returned yet
    cancelTrue,   \* per job id: number of cancelJob calls that returned true
    immediateCleanup, \* JobService.immediateCleanup (IMMEDIATE_CLEANUP)
    maxJobsKept,  \* JobService.maxJobsKept (MAX_JOBS_KEPT)
    purgeAt,      \* per job id: what cleanupCompletedJob has left pending
    metadataDir,  \* the routing_metadata_<jobId> files on disk, by job id
    row,          \* coordinate extraction taken alone: the row given to it
    extracted,    \* coordinate extraction taken alone: what it returned
    jobSubscriptions, \* server.ts jobSubscriptions: jobId -> set of clients
    readyState,   \* per WebSocket client: its readyState
    inbox,        \* per WebSocket client: the messages client.send took
    sendErrors,   \* the clients whose send threw in the latest broadcast
    routeResult,  \* feature writing taken alone: the successful RouteResult
    geometryOptions, \* feature writing taken alone: configuration.geometryOptions
    written,      \* feature writing taken alone: the features written
    coordinateRows, \* validateCoordinatesInFrance: its argument (coordinates)
    validation,   \* validateCoordinatesInFrance: what it returned
    server        \* the HTTP server and the process: listening, closing, exited

\* the configuration read from the environment when the service is built
config == <<immediateCleanup, maxJobsKept>>

\* the variables of the job registry, the dispatcher and the disk
engine == <<files, uploadDir, jobs, jobResults, resultsDir, proc, cancelAt,
            cleanupAt, published, freeIds, cancelTrue, config, purgeAt,
            metadataDir>>

\* the variables of the coordinate extraction taken alone
extraction == <<row, extracted>>

\* the variables of the WebSocket server
sockets == <<jobSubscriptions, readyState, inbox, sendErrors>>

\* the variables of the feature writing taken alone
postProcessing == <<routeResult, geometryOptions, written>>

\* the variables of the coordinate validation taken alone
validating == <<coordinateRows, validation>>

\* the variables no handler of the job registry reads or writes
nonJob == <<extraction, sockets, postProcessing, validating, server>>

vars == <<engine, nonJob>>

\* ------------------------------------------------------------- helpers
Min(a, b) == IF a < b THEN a ELSE b

\* Map.set / Map.delete
Put(m, k, v) == [x \in (DOMAIN m) \cup {k} |-> IF x = k THEN v ELSE m[x]]
Del(m, k) == [x \in (DOMAIN m) \ {k} |-> m[x]]

EmptyMap == [x \in {} |-> 0]

\* mutant of getGeoJSONFilePath: a file name that leaves out the job id
getGeoJSONFilePathNoId(jobId) == <<"routing_results_", ".geojson">>

\* path.join(resultsDir, `routing_results_${jobId}.geojson`)
getGeoJSONFilePath(jobId) == <<"routing_results_", jobId, ".geojson">>

\* fs.access on the job's result file succeeds
hasGeoJSONFile(D, jobId) == getGeoJSONFilePath(jobId) \in DOMAIN D

\* all uploads of at most n rows
Uploads(n) == UNION {[1..k -> RowKinds] : k \in 0..n}

RECURSIVE RowsOf(_, _, _, _)
\* the rowIndex values lo..hi (0-based) of the rows of that kind, ascending
RowsOf(fileData, lo, hi, kind) ==
    IF lo > hi THEN <<>>
    ELSE (IF fileData[lo + 1] = kind THEN <<lo>> ELSE <<>>)
         \o RowsOf(fileData, lo + 1, hi, kind)

\* mutant of prepareRoutingRequests: the outcome of the transformation is
\* not looked at, every row with numeric coordinates becomes a request
prepareRoutingRequestsUnchecked(fileData, lo, hi) ==
    LET rows == {r \in lo..hi : fileData[r + 1] # "bad"}
    IN  [k \in 1..Cardinality(rows) |->
            CHOOSE r \in rows : Cardinality({x \in rows : x < r}) = k - 1]

\* routingRequests of the batch lo..hi: the rows whose coordinates were
\* extracted and whose origin and destination were both transformed
prepareRoutingRequests(fileData, lo, hi) == RowsOf(fileData, lo, hi, "ok")

\* results.push({rowIndex, success: false, error}) for each of the rows
FailedResults(rows) ==
    [k \in 1..Len(rows) |-> [rowIndex |-> rows[k], success |-> FALSE]]

\* mutant of CountSuccess: every result is counted, failed ones too
CountSuccessAll(results) == Len(results)

RECURSIVE CountSuccess(_)
\* results.filter(r => r.success).length
CountSuccess(results) ==
    IF results = <<>> THEN 0
    ELSE (IF results[1].success THEN 1 ELSE 0) + CountSuccess(Tail(results))

\* nothing of cleanupCompletedJob is pending
NoPurge == [delFile |-> FALSE, timer |-> FALSE]

IdleProc ==
    [pc |-> "idle", fileId |-> "none", fileData |-> <<>>, results |-> <<>>,
     i |-> 0,
     routingRequests |-> <<>>, ci |-> 0, routeResults |-> <<>>,
     settled |-> <<>>, routed |-> {}]

\* ------------------------------------------------------ JobService parts
\* mutant of updateJobStatus: no early return for a job that is not in the
\* registry; jobs.set stores a record holding the status only
updateJobStatusUpsert(J, jobId, status, error) ==
    IF jobId \notin DOMAIN J
    THEN Put(J, jobId,
             [fileId |-> "none", status |-> status, error |-> error,
              progress |-> [total |-> 0, processed |-> 0, successful |-> 0,
                            failed |-> 0],
              startedAt |-> 0])
    ELSE [J EXCEPT ![jobId].status = status,
                   ![jobId].error = IF error # NoError THEN error ELSE @]

\* updateJobStatus: the job record part (the broadcast is sendStatusUpdate)
updateJobStatus(J, jobId, status, error) ==
    IF jobId \notin DOMAIN J THEN J
    ELSE [J EXCEPT ![jobId].status = status,
                   ![jobId].error = IF error # NoError THEN error ELSE @]

\* mutant of updateJobProgress: every processed row is counted as failed
updateJobProgressFailedAll(J, jobId, processed, successful) ==
    IF jobId \notin DOMAIN J THEN J
    ELSE [J EXCEPT ![jobId].progress.processed = @ + processed,
                   ![jobId].progress.successful = @ + successful,
                   ![jobId].progress.failed = @ + processed]

\* mutant of updateJobProgress: the counters are assigned, not advanced
updateJobProgressAssign(J, jobId, processed, successful) ==
    IF jobId \notin DOMAIN J THEN J
    ELSE [J EXCEPT ![jobId].progress.processed = processed,
                   ![jobId].progress.successful = successful,
                   ![jobId].progress.failed = processed - successful]

\* updateJobProgress(jobId, processed, successful)
updateJobProgress(J, jobId, processed, successful) ==
    IF jobId \notin DOMAIN J THEN J
    ELSE [J EXCEPT ![jobId].progress.processed = @ + processed,
                   ![jobId].progress.successful = @ + successful,
                   ![jobId].progress.failed = @ + (processed - successful)]

\* the message type sendStatusUpdate gives a status
StatusKind(status) ==
    IF status = "completed" THEN "job_completed"
    ELSE IF status = "failed" THEN "job_failed" ELSE "job_status"

\* sendStatusUpdate: one more message of the status's type for the job
sendStatusUpdate(P, jobId, status) ==
    [P EXCEPT ![jobId][StatusKind(status)] = @ + 1]

\* sendProgressUpdate, n times: nothing when the job is not in the registry
sendProgressUpdate(P, J, jobId, n) ==
    IF jobId \notin DOMAIN J THEN P
    ELSE [P EXCEPT ![jobId].job_progress = @ + n]

\* the summary processJob computes from results before saving
Summary(results) ==
    [total |-> Len(results),
     successful |-> CountSuccess(results),
     failed |-> Len(results) - CountSuccess(results)]

\* mutant of WrittenFeatures: a feature for every result, failed ones too
WrittenFeaturesAll(results) ==
    [k \in 1..Len(results) |-> results[k].rowIndex]

RECURSIVE WrittenFeatures(_)
\* saveGeoJSONResults, feature loop: the rowIndex of every feature written,
\* in the order written (a successful result always carries its route)
WrittenFeatures(results) ==
    IF results = <<>> THEN <<>>
    ELSE (IF results[1].success THEN <<results[1].rowIndex>> ELSE <<>>)
         \o WrittenFeatures(Tail(results))

\* the file once the stream has been opened: nothing flushed yet
PartialFile == [features |-> <<>>, footer |-> FALSE,
                summary |-> Summary(<<>>), totalFeatures |-> 0]

\* the file once every buffered write has been flushed and the stream closed
CompleteFile(results) ==
    [features |-> WrittenFeatures(results), footer |-> TRUE,
     summary |-> Summary(results),
     totalFeatures |-> Len(WrittenFeatures(results))]

\* mutant of BatchLength: batchSize taken for the length of the last slice
BatchLengthFull(fileData, i) == BATCH_SIZE

\* batch.length of batch = fileData.slice(i, i + batchSize)
BatchLength(fileData, i) == Min(i + BATCH_SIZE, Len(fileData)) - i

RECURSIVE RunBatches(_, _)
\* processJob, batch loop: the synchronous run from the head of the loop at
\* st.i up to the next await: calculateBatchRoutes for the first batch that
\* has a routing request ("routes"), or saveGeoJSONResults after the last
\* batch ("save"). st.processed counts the rows given to updateJobProgress
\* on the way (all failed), st.events the calls of sendProgressUpdate.
RunBatches(fileData, st) ==
    IF st.i >= Len(fileData)
    THEN [st EXCEPT !.next = "save"]
    ELSE LET hi == Min(st.i + BATCH_SIZE, Len(fileData)) - 1
             batchLength == BatchLength(fileData, st.i)
             bad == RowsOf(fileData, st.i, hi, "bad")
             xf == RowsOf(fileData, st.i, hi, "xform")
             reqs == prepareRoutingRequests(fileData, st.i, hi)
             r1 == st.results \o FailedResults(bad)
             r2 == r1 \o FailedResults(xf)
         IN  IF Len(bad) = batchLength
             THEN \* batchCoordinates.length === 0: progress, then continue
                  RunBatches(fileData,
                      [st EXCEPT !.i = @ + BATCH_SIZE, !.results = r1,
                                 !.processed = @ + batchLength])
             ELSE IF Len(reqs) > 0
             THEN [st EXCEPT !.next = "routes", !.results = r2,
                             !.routingRequests = reqs]
             ELSE \* all requests of the batch failed in the transformation
                  RunBatches(fileData,
                      [st EXCEPT !.i = @ + BATCH_SIZE, !.results = r2,
                                 !.processed = @ + batchLength,
                                 !.events = @ + 1])

LoopState(i, results) ==
    [next |-> "loop", i |-> i, results |-> results, processed |-> 0,
     events |-> 0, routingRequests |-> <<>>]

\* processJob from the head of the batch loop (at row i, with the results so
\* far) to its next await, applied to the registry J and the published
\* messages P as the caller leaves them
Continue(j, J, P, fileData, i, results, routed) ==
    LET st == RunBatches(fileData, LoopState(i, results))
        J1 == updateJobProgress(J, j, st.processed, 0)
        next == [pc |-> IF st.next = "routes" THEN "routes" ELSE "save_open",
                 fileId |-> proc[j].fileId, fileData |-> fileData,
                 results |-> st.results, i |-> st.i,
                 routingRequests |-> st.routingRequests, ci |-> 0,
                 routeResults |-> <<>>, settled |-> <<>>, routed |-> routed]
    IN  /\ jobs' = J1
        /\ published' = sendProgressUpdate(P, J1, j, st.events)
        /\ proc' = [proc EXCEPT ![j] = next]
        /\ jobResults' = IF st.next = "routes" THEN jobResults
                         \* this.jobResults.set(jobId, results)
                         ELSE Put(jobResults, j, st.results)

\* ------------------------------------------------------ WebSocket server
\* the WebSocket connections (ws objects) the server accepts
Clients == {"c1", "c2"}

\* the payloads (message.data) JobService hands to broadcastJobUpdate
Payloads == {"progress", "status"}

\* JSON.stringify({type: 'job_update', jobId, data})
JobUpdate(jobId, data) == [type |-> "job_update", jobId |-> jobId, data |-> data]

\* no client has connected yet
NoSockets ==
    /\ jobSubscriptions = EmptyMap
    /\ readyState = [c \in Clients |-> "CONNECTING"]
    /\ inbox = [c \in Clients |-> <<>>]
    /\ sendErrors = {}

\* ------------------------------------------------ geometry of features
\* the vertices routes are made of: three on a line, one at distance 1 and
\* one at distance 2 from it
Vertices == {<<0, 0>>, <<1, 0>>, <<2, 0>>, <<1, 1>>, <<1, 2>>}

\* LineString coordinates of n vertices
Lines(n) == [1..n -> Vertices]

\* simplificationTolerance, in the unit of the coordinates; 0 is also the
\* field left out (both are falsy)
Tolerances == {0, 1, 2}

\* configuration.geometryOptions (exportGeometry left out counts as true)
GeometryOptions ==
    [exportGeometry : BOOLEAN, straightLineGeometry : BOOLEAN,
     simplifyGeometry : BOOLEAN, simplificationTolerance : Tolerances]

\* a successful RouteResult with the line as its route
RouteResultOf(line) ==
    [rowIndex |-> 0, success |-> TRUE,
     route |-> [geometry |-> line, distance |-> 1234, duration |-> 90]]

\* no feature is being written
NoPostProcessing ==
    /\ routeResult = RouteResultOf(<<>>)
    /\ geometryOptions =
           [exportGeometry |-> TRUE, straightLineGeometry |-> FALSE,
            simplifyGeometry |-> FALSE, simplificationTolerance |-> 0]
    /\ written = <<>>

\* createStraightLineGeometry
createStraightLineGeometry(originalGeometry) ==
    IF Len(originalGeometry) < 2 THEN originalGeometry
    ELSE <<originalGeometry[1], originalGeometry[Len(originalGeometry)]>>

\* distances are kept as the square of the distance, a fraction num/den of
\* integers (Math.sqrt is increasing, so the comparisons are the same)
Greater(d, e) == d.num * e.den > e.num * d.den

\* pointToLineDistance: the distance from the point to the segment from
\* lineStart to lineEnd
pointToLineDistance(point, lineStart, lineEnd) ==
    LET A == point[1] - lineStart[1]
        B == point[2] - lineStart[2]
        C == lineEnd[1] - lineStart[1]
        D == lineEnd[2] - lineStart[2]
        dot == A * C + B * D
        lenSq == C * C + D * D
    IN  IF lenSq = 0 THEN [num |-> A * A + B * B, den |-> 1]
        ELSE IF dot < 0              \* param < 0
             THEN [num |-> A * A + B * B, den |-> 1]
        ELSE IF dot > lenSq          \* param > 1
             THEN [num |-> (point[1] - lineEnd[1]) * (point[1] - lineEnd[1])
                           + (point[2] - lineEnd[2]) * (point[2] - lineEnd[2]),
                   den |-> 1]
        ELSE \* the foot of the perpendicular is on the segment
             [num |-> (A * D - B * C) * (A * D - B * C), den |-> lenSq]

\* the loop of douglasPeucker: maxDistance and maxIndex (a position from 1)
\* after the interior points up to position i
MaxDeviation(points) ==
    LET scan[i \in 1..(Len(points) - 1)] ==
            IF i = 1 THEN [maxDistance |-> [num |-> 0, den |-> 1],
                           maxIndex |-> 1]
            ELSE LET distance ==
                         pointToLineDistance(points[i], points[1],
                                             points[Len(points)])
                     before == scan[i - 1]
                 IN  IF Greater(distance, before.maxDistance)
                     THEN [maxDistance |-> distance, maxIndex |-> i]
                     ELSE before
    IN  scan[Len(points) - 1]

\* maxDistance > tolerance
Exceeds(d, tolerance) == d.num > tolerance * tolerance * d.den

RECURSIVE douglasPeucker(_, _)
\* douglasPeucker
douglasPeucker(points, tolerance) ==
    IF Len(points) <= 2 THEN points
    ELSE LET m == MaxDeviation(points) IN
         IF Exceeds(m.maxDistance, tolerance)
         THEN LET leftPoints ==
                      douglasPeucker(SubSeq(points, 1, m.maxIndex), tolerance)
                  rightPoints ==
                      douglasPeucker(SubSeq(points, m.maxIndex, Len(points)),
                                     tolerance)
              IN  SubSeq(leftPoints, 1, Len(leftPoints) - 1) \o rightPoints
         ELSE <<points[1], points[Len(points)]>>

\* simplifyGeometry
simplifyGeometry(originalGeometry, tolerance) ==
    IF Len(originalGeometry) < 3 THEN originalGeometry
    ELSE douglasPeucker(originalGeometry, tolerance)

\* mutant of postProcess: the simplification is tried before the straight
\* line
postProcessSimplifyFirst(geometry, options) ==
    IF options.simplifyGeometry /\ options.simplificationTolerance # 0
    THEN simplifyGeometry(geometry, options.simplificationTolerance)
    ELSE IF options.straightLineGeometry
    THEN createStraightLineGeometry(geometry)
    ELSE geometry

\* mutant of postProcess: the simplification is made with a tolerance of 0
\* too
postProcessAnyTolerance(geometry, options) ==
    IF options.straightLineGeometry
    THEN createStraightLineGeometry(geometry)
    ELSE IF options.simplifyGeometry
    THEN simplifyGeometry(geometry, options.simplificationTolerance)
    ELSE geometry

\* saveGeoJSONResults, "Determine geometry based on configuration"
postProcess(geometry, options) ==
    IF options.straightLineGeometry
    THEN createStraightLineGeometry(geometry)
    ELSE IF options.simplifyGeometry /\ options.simplificationTolerance # 0
    THEN simplifyGeometry(geometry, options.simplificationTolerance)
    ELSE geometry

\* the properties of the feature of a result; distance_km and
\* duration_minutes in hundredths (Math.round of a non-negative number)
PropertiesOf(result) ==
    [distance |-> result.route.distance,
     duration |-> result.route.duration,
     distance_km |-> (result.route.distance + 5) \div 10,
     duration_minutes |-> (result.route.duration * 100 + 30) \div 60,
     rowIndex |-> result.rowIndex]

\* saveGeoJSONResults, the feature of a successful result
FeatureOf(result, options) ==
    [type |-> "Feature",
     geometry |-> IF options.exportGeometry
                  THEN [null |-> FALSE,
                        coordinates |-> postProcess(result.route.geometry,
                                                    options)]
                  ELSE [null |-> TRUE, coordinates |-> <<>>],
     properties |-> PropertiesOf(result)]

\* ------------------------------------------------ geographic validation
\* numbers are tenths of a degree; NaN and the two infinities are kept apart
Num(n) == [kind |-> "num", tenths |-> n]
NotANumber == [kind |-> "nan", tenths |-> 0]
PlusInfinity == [kind |-> "+inf", tenths |-> 0]
MinusInfinity == [kind |-> "-inf", tenths |-> 0]

\* a >= b and a <= b for a, b numbers or NaN: false when one of them is NaN
Geq(a, b) == a.kind = "num" /\ b.kind = "num" /\ a.tenths >= b.tenths
Leq(a, b) == a.kind = "num" /\ b.kind = "num" /\ a.tenths <= b.tenths

\* Math.min(a, b), a the running minimum (Infinity at first), b a number or
\* NaN
MathMin(a, b) ==
    IF a.kind = "nan" \/ b.kind = "nan" THEN NotANumber
    ELSE IF a.kind = "+inf" THEN b
    ELSE IF b.tenths < a.tenths THEN b ELSE a

\* Math.max(a, b), a the running maximum (-Infinity at first)
MathMax(a, b) ==
    IF a.kind = "nan" \/ b.kind = "nan" THEN NotANumber
    ELSE IF a.kind = "-inf" THEN b
    ELSE IF b.tenths > a.tenths THEN b ELSE a

FRANCE_BOUNDS ==
    [minLat |-> Num(410), maxLat |-> Num(515),
     minLon |-> Num(-55), maxLon |-> Num(100)]

\* the latitudes given: NaN, the southern edge of FRANCE_BOUNDS, one north of
\* it, one above 90 and one below -90
Latitudes == {NotANumber, Num(410), Num(520), Num(910), Num(-910)}

\* the longitudes given: NaN, the eastern edge of FRANCE_BOUNDS, one east of
\* it and one above 180
Longitudes == {NotANumber, Num(100), Num(120), Num(1810)}

\* the argument made of the pairs f[1], ..., f[n] of a latitude and a
\* longitude: rows numbered from 0 in their order
CoordinateList(f) ==
    [i \in DOMAIN f |->
        [lat |-> f[i][1], lon |-> f[i][2], rowIndex |-> i - 1]]

InvalidReason == "Coordonnees invalides (hors plage geographique globale)"
OutsideReason == "Coordonnees hors du perimetre France metropolitaine + Corse"

isWithinFranceBounds(lat, lon) ==
    /\ Geq(lat, FRANCE_BOUNDS.minLat)
    /\ Leq(lat, FRANCE_BOUNDS.maxLat)
    /\ Geq(lon, FRANCE_BOUNDS.minLon)
    /\ Leq(lon, FRANCE_BOUNDS.maxLon)

isValidCoordinate(lat, lon) ==
    /\ lat.kind # "nan"
    /\ lon.kind # "nan"
    /\ Geq(lat, Num(-900))
    /\ Leq(lat, Num(900))
    /\ Geq(lon, Num(-1800))
    /\ Leq(lon, Num(1800))

\* mutant of invalidRowsAfter: the bounds of France are tested first
invalidRowsFranceFirst(invalidRows, c) ==
    IF ~ isWithinFranceBounds(c.lat, c.lon)
    THEN Append(invalidRows,
                [rowIndex |-> c.rowIndex, lat |-> c.lat, lon |-> c.lon,
                 reason |-> OutsideReason])
    ELSE IF ~ isValidCoordinate(c.lat, c.lon)
    THEN Append(invalidRows,
                [rowIndex |-> c.rowIndex, lat |-> c.lat, lon |-> c.lon,
                 reason |-> InvalidReason])
    ELSE invalidRows

\* validateCoordinatesInFrance, the validation in the callback of forEach:
\* invalidRows after the row c
invalidRowsAfter(invalidRows, c) ==
    IF ~ isValidCoordinate(c.lat, c.lon)
    THEN Append(invalidRows,
                [rowIndex |-> c.rowIndex, lat |-> c.lat, lon |-> c.lon,
                 reason |-> InvalidReason])
    ELSE IF ~ isWithinFranceBounds(c.lat, c.lon)
    THEN Append(invalidRows,
                [rowIndex |-> c.rowIndex, lat |-> c.lat, lon |-> c.lon,
                 reason |-> OutsideReason])
    ELSE invalidRows

\* x === Infinity ? 0 : x (and the same for -Infinity)
ZeroIfInfinite(x) == IF x.kind \in {"+inf", "-inf"} THEN Num(0) ELSE x

validateCoordinatesInFrance(coords) ==
    LET loop[i \in 0..Len(coords)] ==
            IF i = 0
            THEN [invalidRows |-> <<>>,
                  minLat |-> PlusInfinity, maxLat |-> MinusInfinity,
                  minLon |-> PlusInfinity, maxLon |-> MinusInfinity]
            ELSE LET before == loop[i - 1] IN
                 [invalidRows |->
                      invalidRowsAfter(before.invalidRows, coords[i]),
                  minLat |-> MathMin(before.minLat, coords[i].lat),
                  maxLat |-> MathMax(before.maxLat, coords[i].lat),
                  minLon |-> MathMin(before.minLon, coords[i].lon),
                  maxLon |-> MathMax(before.maxLon, coords[i].lon)]
        end == loop[Len(coords)]
    IN  [done |-> TRUE,
         isValid |-> Len(end.invalidRows) = 0,
         invalidCount |-> Len(end.invalidRows),
         invalidRows |-> end.invalidRows,
         bounds |-> [minLat |-> ZeroIfInfinite(end.minLat),
                     maxLat |-> ZeroIfInfinite(end.maxLat),
                     minLon |-> ZeroIfInfinite(end.minLon),
                     maxLon |-> ZeroIfInfinite(end.maxLon)]]

\* nothing has been validated
NotValidated ==
    [done |-> FALSE, isValid |-> FALSE, invalidCount |-> 0,
     invalidRows |-> <<>>,
     bounds |-> [minLat |-> Num(0), maxLat |-> Num(0),
                 minLon |-> Num(0), maxLon |-> Num(0)]]

NoValidation ==
    /\ coordinateRows = <<>>
    /\ validation = NotValidated

\* ----------------------------------------- coordinate extraction alone
\* the characters of a field: a digit, and a character no number contains
Chars == {"1", "a"}

\* row[field] when the row has no such column (undefined)
NoField == [present |-> FALSE, text |-> <<>>]

\* the values of a coordinate field: undefined, or a text
Fields ==
    {NoField} \cup
    {[present |-> TRUE, text |-> t] :
        t \in UNION {[1..n -> Chars] : n \in 0..MaxFieldLen}}

CoordinateFields == {"originX", "originY", "destX", "destY"}

NoRow == [f \in CoordinateFields |-> NoField]

NaN == [nan |-> TRUE, digits |-> <<>>]

NotExtracted ==
    [done |-> FALSE, null |-> FALSE,
     coordinates |-> [f \in CoordinateFields |-> NaN]]

RECURSIVE NumericPrefix(_)
\* the longest prefix of the text that is a decimal literal
NumericPrefix(text) ==
    IF text = <<>> \/ Head(text) # "1" THEN <<>>
    ELSE <<Head(text)>> \o NumericPrefix(Tail(text))

\* parseFloat(row[field]): the number the longest numeric prefix of the text
\* denotes, whatever follows it; NaN when there is no such prefix or the
\* field is undefined
parseFloat(field) ==
    IF ~ field.present \/ NumericPrefix(field.text) = <<>> THEN NaN
    ELSE [nan |-> FALSE, digits |-> NumericPrefix(field.text)]

\* processJob, the callback of batch.map: null (after a failed result has
\* been pushed) when one of the four parseFloat values is NaN, otherwise the
\* coordinates the transformation and the routing request are made from
extractCoordinates(r) ==
    LET coordinates == [f \in CoordinateFields |-> parseFloat(r[f])]
    IN  [done |-> TRUE,
         null |-> \E f \in CoordinateFields : coordinates[f].nan,
         coordinates |-> coordinates]

\* the extraction is given any row with fields of at most MaxFieldLen
\* characters; the job registry is empty
InitExtract ==
    /\ row \in [CoordinateFields -> Fields]
    /\ extracted = NotExtracted
    /\ NoSockets
    /\ NoPostProcessing
    /\ NoValidation
    /\ server = "listening"
    /\ uploadDir = [f \in FileIds |-> <<>>]
    /\ files = [f \in FileIds |-> [rowCount |-> 0]]
    /\ jobs = EmptyMap
    /\ jobResults = EmptyMap
    /\ resultsDir = EmptyMap
    /\ proc = [j \in JobIds |-> IdleProc]
    /\ cancelAt = [j \in JobIds |-> [has |-> 0, del |-> 0]]
    /\ cleanupAt = [j \in JobIds |-> [delFile |-> 0, has |-> 0, del |-> 0]]
    /\ published = [j \in JobIds |->
                      [job_status |-> 0, job_progress |-> 0,
                       job_completed |-> 0, job_failed |-> 0]]
    /\ freeIds = {}
    /\ cancelTrue = [j \in JobIds |-> 0]
    /\ immediateCleanup = FALSE
    /\ maxJobsKept = MAX_JOBS_KEPT
    /\ purgeAt = [j \in JobIds |-> NoPurge]
    /\ metadataDir = {}

\* the callback runs on the row
extractRow ==
    /\ ~ extracted.done
    /\ extracted' = extractCoordinates(row)
    /\ UNCHANGED <<row, engine, sockets, postProcessing, validating, server>>

NextExtract == extractRow

SpecExtract == InitExtract /\ [][NextExtract]_vars

\* ------------------------------------------- WebSocket server, handlers
\* wss.on('connection'): the handshake is done, the handlers are attached
onConnection(c) ==
    /\ readyState[c] = "CONNECTING"
    /\ readyState' = [readyState EXCEPT ![c] = "OPEN"]
    /\ UNCHANGED <<jobSubscriptions, inbox, sendErrors, engine, extraction, postProcessing, validating,
                   server>>

\* ws.on('message') with {type: 'subscribe', jobId}
onSubscribe(c, jobId) ==
    /\ readyState[c] = "OPEN"
    /\ jobSubscriptions' =
           Put(jobSubscriptions, jobId,
               (IF jobId \in DOMAIN jobSubscriptions
                THEN jobSubscriptions[jobId] ELSE {}) \cup {c})
    /\ UNCHANGED <<readyState, inbox, sendErrors, engine, extraction, postProcessing, validating,
                   server>>

\* mutant of deleteSubscriber: the set is kept in the map when it is left
\* empty
deleteSubscriberKeepEmpty(S, jobId, c) ==
    IF jobId \notin DOMAIN S THEN S
    ELSE Put(S, jobId, S[jobId] \ {c})

\* subscribers.delete(ws) on the set of jobId, and jobSubscriptions.delete
\* when the set is left empty; nothing when jobId has no set
deleteSubscriber(S, jobId, c) ==
    IF jobId \notin DOMAIN S THEN S
    ELSE IF S[jobId] \ {c} = {} THEN Del(S, jobId)
    ELSE Put(S, jobId, S[jobId] \ {c})

\* ws.on('message') with {type: 'unsubscribe', jobId}
onUnsubscribe(c, jobId) ==
    /\ readyState[c] = "OPEN"
    /\ jobSubscriptions' = deleteSubscriber(jobSubscriptions, jobId, c)
    /\ UNCHANGED <<readyState, inbox, sendErrors, engine, extraction, postProcessing, validating,
                   server>>

\* ws.on('message') with text that is not JSON, another type or no jobId:
\* nothing (a parse error is logged)
onOtherMessage(c) ==
    /\ readyState[c] = "OPEN"
    /\ UNCHANGED vars

\* the closing handshake starts (a close frame came in): readyState 2, no
\* handler of server.ts runs
closing(c) ==
    /\ readyState[c] = "OPEN"
    /\ readyState' = [readyState EXCEPT ![c] = "CLOSING"]
    /\ UNCHANGED <<jobSubscriptions, inbox, sendErrors, engine, extraction, postProcessing, validating,
                   server>>

\* mutant of deleteFromAll: the loop stops after the first entry of the map
deleteFromFirst(S, c) ==
    IF DOMAIN S = {} THEN S
    ELSE deleteSubscriber(S, CHOOSE j \in DOMAIN S : \A k \in DOMAIN S : j <= k, c)

\* ws.on('close'), the loop over jobSubscriptions.entries(): the client is
\* deleted from every set, and a set left empty is deleted from the map
deleteFromAll(S, c) ==
    [j \in {k \in DOMAIN S : S[k] \ {c} # {}} |-> S[j] \ {c}]

\* ws.on('close'): the connection is closed (readyState 3)
onClose(c) ==
    /\ readyState[c] \in {"OPEN", "CLOSING"}
    /\ readyState' = [readyState EXCEPT ![c] = "CLOSED"]
    /\ jobSubscriptions' = deleteFromAll(jobSubscriptions, c)
    /\ UNCHANGED <<inbox, sendErrors, engine, extraction, postProcessing, validating,
                   server>>

\* mutant of subscribersOf: every client subscribed to some job
subscribersOfAnyJob(S, jobId) ==
    UNION {S[j] : j \in DOMAIN S}

\* jobSubscriptions.get(jobId); the empty set stands for undefined
subscribersOf(S, jobId) ==
    IF jobId \in DOMAIN S THEN S[jobId] ELSE {}

\* the messages sent so far, over all clients
Sent == Len(inbox["c1"]) + Len(inbox["c2"])

\* global.broadcastJobUpdate(jobId, data), called by
\* JobService.broadcastWebSocketMessage: client.send on every subscriber
\* whose readyState is OPEN; a subscriber that is not OPEN or whose send
\* throws (the clients of threw) is deleted from the set, and the loop goes
\* on; the set is deleted from the map when it is left empty
broadcastJobUpdate(jobId, data) ==
    LET subscribers == subscribersOf(jobSubscriptions, jobId)
        open == {c \in subscribers : readyState[c] = "OPEN"}
    IN  /\ subscribers # {}
        /\ Sent + Cardinality(open) <= MaxSent
        /\ \E threw \in SUBSET open :
              /\ inbox' = [c \in Clients |->
                              IF c \in open \ threw
                              THEN Append(inbox[c], JobUpdate(jobId, data))
                              ELSE inbox[c]]
              /\ sendErrors' = threw
              /\ jobSubscriptions' =
                     IF open \ threw = {}
                     THEN Del(jobSubscriptions, jobId)
                     ELSE Put(jobSubscriptions, jobId, open \ threw)
        /\ UNCHANGED <<readyState, engine, extraction, postProcessing, validating,
                   server>>

\* broadcastJobUpdate for a job without subscribers: nothing
broadcastNobody(jobId, data) ==
    /\ subscribersOf(jobSubscriptions, jobId) = {}
    /\ UNCHANGED vars

\* the WebSocket server alone; the job registry is empty and JobService
\* publishes any payload for any job id
InitSockets ==
    /\ NoSockets
    /\ NoPostProcessing
    /\ NoValidation
    /\ server = "listening"
    /\ row = NoRow
    /\ extracted = NotExtracted
    /\ uploadDir = [f \in FileIds |-> <<>>]
    /\ files = [f \in FileIds |-> [rowCount |-> 0]]
    /\ jobs = EmptyMap
    /\ jobResults = EmptyMap
    /\ resultsDir = EmptyMap
    /\ proc = [j \in JobIds |-> IdleProc]
    /\ cancelAt = [j \in JobIds |-> [has |-> 0, del |-> 0]]
    /\ cleanupAt = [j \in JobIds |-> [delFile |-> 0, has |-> 0, del |-> 0]]
    /\ published = [j \in JobIds |->
                      [job_status |-> 0, job_progress |-> 0,
                       job_completed |-> 0, job_failed |-> 0]]
    /\ freeIds = {}
    /\ cancelTrue = [j \in JobIds |-> 0]
    /\ immediateCleanup = FALSE
    /\ maxJobsKept = MAX_JOBS_KEPT
    /\ purgeAt = [j \in JobIds |-> NoPurge]
    /\ metadataDir = {}

NextSockets ==
    \/ \E c \in Clients : onConnection(c)
    \/ \E c \in Clients, j \in JobIds : onSubscribe(c, j)
    \/ \E c \in Clients, j \in JobIds : onUnsubscribe(c, j)
    \/ \E c \in Clients : onOtherMessage(c)
    \/ \E c \in Clients : closing(c)
    \/ \E c \in Clients : onClose(c)
    \/ \E j \in JobIds, d \in Payloads : broadcastJobUpdate(j, d)
    \/ \E j \in JobIds, d \in Payloads : broadcastNobody(j, d)

SpecSockets == InitSockets /\ [][NextSockets]_vars

\* ------------------------------------------------ feature writing alone
\* the writer is given a successful result with any line of at most
\* MaxVertices vertices and any geometry options; the job registry is empty
InitPostProcess ==
    /\ \E n \in 0..MaxVertices :
          \E line \in Lines(n) : routeResult = RouteResultOf(line)
    /\ geometryOptions \in GeometryOptions
    /\ written = <<>>
    /\ row = NoRow
    /\ extracted = NotExtracted
    /\ NoSockets
    /\ NoValidation
    /\ server = "listening"
    /\ uploadDir = [f \in FileIds |-> <<>>]
    /\ files = [f \in FileIds |-> [rowCount |-> 0]]
    /\ jobs = EmptyMap
    /\ jobResults = EmptyMap
    /\ resultsDir = EmptyMap
    /\ proc = [j \in JobIds |-> IdleProc]
    /\ cancelAt = [j \in JobIds |-> [has |-> 0, del |-> 0]]
    /\ cleanupAt = [j \in JobIds |-> [delFile |-> 0, has |-> 0, del |-> 0]]
    /\ published = [j \in JobIds |->
                      [job_status |-> 0, job_progress |-> 0,
                       job_completed |-> 0, job_failed |-> 0]]
    /\ freeIds = {}
    /\ cancelTrue = [j \in JobIds |-> 0]
    /\ immediateCleanup = FALSE
    /\ maxJobsKept = MAX_JOBS_KEPT
    /\ purgeAt = [j \in JobIds |-> NoPurge]
    /\ metadataDir = {}

\* the loop body of saveGeoJSONResults runs on the result
writeFeature ==
    /\ written = <<>>
    /\ written' = <<FeatureOf(routeResult, geometryOptions)>>
    /\ UNCHANGED <<routeResult, geometryOptions, engine, extraction, sockets,
                   validating, server>>

NextPostProcess == writeFeature

SpecPostProcess == InitPostProcess /\ [][NextPostProcess]_vars

\* ------------------------------------------------ validation alone
\* validateCoordinatesInFrance is given any list of at most MaxCoordinates
\* rows; the job registry is empty
InitValidate ==
    /\ \E n \in 0..MaxCoordinates :
          \E f \in [1..n -> Latitudes \X Longitudes] :
              coordinateRows = CoordinateList(f)
    /\ validation = NotValidated
    /\ server = "listening"
    /\ NoPostProcessing
    /\ row = NoRow
    /\ extracted = NotExtracted
    /\ NoSockets
    /\ uploadDir = [f \in FileIds |-> <<>>]
    /\ files = [f \in FileIds |-> [rowCount |-> 0]]
    /\ jobs = EmptyMap
    /\ jobResults = EmptyMap
    /\ resultsDir = EmptyMap
    /\ proc = [j \in JobIds |-> IdleProc]
    /\ cancelAt = [j \in JobIds |-> [has |-> 0, del |-> 0]]
    /\ cleanupAt = [j \in JobIds |-> [delFile |-> 0, has |-> 0, del |-> 0]]
    /\ published = [j \in JobIds |->
                      [job_status |-> 0, job_progress |-> 0,
                       job_completed |-> 0, job_failed |-> 0]]
    /\ freeIds = {}
    /\ cancelTrue = [j \in JobIds |-> 0]
    /\ immediateCleanup = FALSE
    /\ maxJobsKept = MAX_JOBS_KEPT
    /\ purgeAt = [j \in JobIds |-> NoPurge]
    /\ metadataDir = {}

\* the call validateCoordinatesInFrance(coordinateRows)
validate ==
    /\ ~ validation.done
    /\ validation' = validateCoordinatesInFrance(coordinateRows)
    /\ UNCHANGED <<coordinateRows, engine, extraction, sockets, postProcessing,
                   server>>

NextValidate == validate

SpecValidate == InitValidate /\ [][NextValidate]_vars

\* ---------------------------------------------------------------- Init
Init ==
    /\ \E rows \in Uploads(MaxRows) :
          /\ uploadDir = [f \in FileIds |-> rows]
          /\ files = [f \in FileIds |-> [rowCount |-> Len(rows)]]
    /\ jobs = EmptyMap
    /\ jobResults = EmptyMap
    /\ resultsDir = EmptyMap
    /\ proc = [j \in JobIds |-> IdleProc]
    /\ cancelAt = [j \in JobIds |-> [has |-> 0, del |-> 0]]
    /\ cleanupAt = [j \in JobIds |-> [delFile |-> 0, has |-> 0, del |-> 0]]
    /\ published = [j \in JobIds |->
                      [job_status |-> 0, job_progress |-> 0,
                       job_completed |-> 0, job_failed |-> 0]]
    /\ freeIds = {1}
    /\ cancelTrue = [j \in JobIds |-> 0]
    /\ immediateCleanup = FALSE
    /\ maxJobsKept = MAX_JOBS_KEPT
    /\ purgeAt = [j \in JobIds |-> NoPurge]
    /\ metadataDir = {}
    /\ row = NoRow
    /\ extracted = NotExtracted
    /\ NoSockets
    /\ NoPostProcessing
    /\ NoValidation
    /\ server = "listening"

\* the service in the configurations that purge jobs on their own: two jobs,
\* MAX_JOBS_KEPT below the number of jobs, IMMEDIATE_CLEANUP on or off
InitHousekeeping ==
    /\ \E rows \in Uploads(MaxRowsHousekeeping) :
          /\ uploadDir = [f \in FileIds |-> rows]
          /\ files = [f \in FileIds |-> [rowCount |-> Len(rows)]]
    /\ jobs = EmptyMap
    /\ jobResults = EmptyMap
    /\ resultsDir = EmptyMap
    /\ proc = [j \in JobIds |-> IdleProc]
    /\ cancelAt = [j \in JobIds |-> [has |-> 0, del |-> 0]]
    /\ cleanupAt = [j \in JobIds |-> [delFile |-> 0, has |-> 0, del |-> 0]]
    /\ published = [j \in JobIds |->
                      [job_status |-> 0, job_progress |-> 0,
                       job_completed |-> 0, job_failed |-> 0]]
    /\ freeIds = JobIds
    /\ cancelTrue = [j \in JobIds |-> 0]
    /\ immediateCleanup \in BOOLEAN
    /\ maxJobsKept = MaxJobsKeptHousekeeping
    /\ purgeAt = [j \in JobIds |-> NoPurge]
    /\ metadataDir = {}
    /\ row = NoRow
    /\ extracted = NotExtracted
    /\ NoSockets
    /\ NoPostProcessing
    /\ NoValidation
    /\ server = "listening"

\* ------------------------------------------------------------ createJob
\* createJob with an unknown fileId or an unknown projection code: throws
createJobRejected(fileId, projectionOk) ==
    /\ freeIds # {}
    /\ fileId \notin DOMAIN files \/ ~projectionOk
    /\ UNCHANGED vars

\* mutant of NewJob: total is left at 0 until the rows have been read
NewJobTotalLater(fileId) ==
    [fileId |-> fileId, status |-> "pending", error |-> NoError,
     progress |-> [total |-> 0, processed |-> 0,
                   successful |-> 0, failed |-> 0],
     startedAt |-> Cardinality(JobIds \ freeIds) + 1]

\* the record createJob stores. startedAt (new Date()) is the rank of the
\* job in creation order: two jobs are created at different times
NewJob(fileId) ==
    [fileId |-> fileId, status |-> "pending", error |-> NoError,
     progress |-> [total |-> files[fileId].rowCount, processed |-> 0,
                   successful |-> 0, failed |-> 0],
     startedAt |-> Cardinality(JobIds \ freeIds) + 1]

\* createJob with valid references, up to the first await of the processJob
\* it starts: the job is stored as pending, processJob sets it to processing
\* and suspends in parseFileData
createJob(fileId) ==
    /\ freeIds # {}
    /\ fileId \in DOMAIN files
    /\ LET j == CHOOSE x \in freeIds : \A y \in freeIds : x <= y IN
       /\ jobs' = updateJobStatus(Put(jobs, j, NewJob(fileId)), j,
                                  "processing", NoError)
       /\ published' = sendStatusUpdate(published, j, "processing")
       /\ proc' = [proc EXCEPT ![j].pc = "parse", ![j].fileId = fileId]
    /\ freeIds' = freeIds \ {CHOOSE x \in freeIds : \A y \in freeIds : x <= y}
    /\ UNCHANGED <<nonJob, config, metadataDir, purgeAt, files, uploadDir, jobResults, resultsDir, cancelAt,
                   cleanupAt, cancelTrue>>

\* ----------------------------------------------------------- processJob
\* mutant of parseFileData: an upload without rows is answered null too
parseFileDataNullWhenEmpty(D, fileId) ==
    IF fileId \notin DOMAIN D \/ D[fileId] = <<>>
    THEN [null |-> TRUE, rows |-> <<>>]
    ELSE [null |-> FALSE, rows |-> D[fileId]]

\* mutant of parseFileData: an upload that is gone is answered as an upload
\* without rows
parseFileDataEmptyWhenGone(D, fileId) ==
    IF fileId \notin DOMAIN D
    THEN [null |-> FALSE, rows |-> <<>>]
    ELSE [null |-> FALSE, rows |-> D[fileId]]

\* fileService.parseFileData(job.fileId): the rows of the upload (the job's
\* captured record names it), or null when getFileData throws because no
\* file of the upload directory starts with the fileId
parseFileData(D, fileId) ==
    IF fileId \notin DOMAIN D
    THEN [null |-> TRUE, rows |-> <<>>]
    ELSE [null |-> FALSE, rows |-> D[fileId]]

\* parseFileData resolves: the rows of the upload, or null when the file is
\* not in the upload directory; then processJob runs to its next await
processJobRead(j) ==
    /\ proc[j].pc = "parse"
    /\ LET fileData == parseFileData(uploadDir, proc[j].fileId) IN
       IF ~ fileData.null
       THEN Continue(j, jobs, published, fileData.rows, 0, <<>>, {})
       ELSE \* throw new Error('Failed to read file data'), caught at the end
            /\ jobs' = updateJobStatus(jobs, j, "failed", ReadMsg)
            /\ published' = IF j \in DOMAIN jobs
                            THEN sendStatusUpdate(published, j, "failed")
                            ELSE published
            /\ proc' = [proc EXCEPT ![j].pc = "done"]
            /\ UNCHANGED jobResults
    /\ UNCHANGED <<nonJob, config, metadataDir, purgeAt, files, uploadDir, resultsDir, cancelAt, cleanupAt, freeIds, cancelTrue>>

\* ------------------------------------------------- calculateBatchRoutes
\* mutant of ChunkPositions: no chunks, all the requests of the call are
\* fired at once
ChunkPositionsAll(j) == 1..Len(proc[j].routingRequests)

\* mutant of ChunkPositions: the last request of the chunk is never made, so
\* its promise never settles
ChunkPositionsShort(j) ==
    (proc[j].ci + 1) ..
        (Min(proc[j].ci + OSRM_MAX_CONCURRENT, Len(proc[j].routingRequests))
            - 1)

\* positions (1-based, in routingRequests) of the chunk in flight
ChunkPositions(j) ==
    (proc[j].ci + 1) ..
        Min(proc[j].ci + OSRM_MAX_CONCURRENT, Len(proc[j].routingRequests))

SettledPositions(j) ==
    {proc[j].settled[k].pos : k \in 1..Len(proc[j].settled)}

\* mutant of allSettled: a request that fails rejects its promise, and the
\* results take the fulfilled promises only
allSettledFulfilledOnly(settled, lo, hi) ==
    SelectSeq([k \in 1..(hi - lo + 1) |->
                  LET s == CHOOSE s \in {settled[n] : n \in 1..Len(settled)} :
                               s.pos = lo + k - 1
                  IN  [rowIndex |-> s.rowIndex, success |-> s.success]],
              LAMBDA r : r.success)

\* mutant of allSettled: the outcomes in the order in which they settled
allSettledCompletionOrder(settled, lo, hi) ==
    [k \in 1..Len(settled) |->
        [rowIndex |-> settled[k].rowIndex, success |-> settled[k].success]]

\* Promise.allSettled: the outcomes of positions lo..hi in the order of the
\* promises, whatever the order in which they settled
allSettled(settled, lo, hi) ==
    [k \in 1..(hi - lo + 1) |->
        LET s == CHOOSE s \in {settled[n] : n \in 1..Len(settled)} :
                     s.pos = lo + k - 1
        IN  [rowIndex |-> s.rowIndex, success |-> s.success]]

\* one request of the chunk in flight settles: routeOk when the daemon
\* answered with a route that has a geometry, otherwise a failed outcome.
\* The last one to settle resumes calculateBatchRoutes, which fires the next
\* chunk or returns to processJob; processJob then runs to its next await.
routeSettled(j, pos, routeOk) ==
    /\ proc[j].pc = "routes"
    /\ pos \in ChunkPositions(j) \ SettledPositions(j)
    /\ LET p == proc[j]
           rowIndex == p.routingRequests[pos]
           settled == Append(p.settled,
                        [pos |-> pos, rowIndex |-> rowIndex,
                         success |-> routeOk])
           routed == IF routeOk THEN p.routed \cup {rowIndex} ELSE p.routed
           lo == p.ci + 1
           hi == Min(p.ci + OSRM_MAX_CONCURRENT, Len(p.routingRequests))
       IN  IF Len(settled) < hi - lo + 1
           THEN \* still waiting in Promise.allSettled
                /\ proc' = [proc EXCEPT ![j].settled = settled,
                                        ![j].routed = routed]
                /\ UNCHANGED <<jobs, jobResults, published>>
           ELSE LET routeResults ==
                        p.routeResults \o allSettled(settled, lo, hi)
                IN  IF hi < Len(p.routingRequests)
                    THEN \* next chunk: all its requests are fired
                         /\ proc' = [proc EXCEPT
                                ![j].ci = @ + OSRM_MAX_CONCURRENT,
                                ![j].routeResults = routeResults,
                                ![j].settled = <<>>,
                                ![j].routed = routed]
                         /\ UNCHANGED <<jobs, jobResults, published>>
                    ELSE \* back in processJob: results.push(...routeResults),
                         \* updateJobProgress, sendProgressUpdate, next batch
                         LET batchLength == BatchLength(p.fileData, p.i)
                             J1 == updateJobProgress(jobs, j, batchLength,
                                       CountSuccess(routeResults))
                             P1 == sendProgressUpdate(published, J1, j, 1)
                         IN  Continue(j, J1, P1, p.fileData,
                                      p.i + BATCH_SIZE,
                                      p.results \o routeResults, routed)
    /\ UNCHANGED <<nonJob, config, metadataDir, purgeAt, files, uploadDir, resultsDir, cancelAt, cleanupAt, freeIds, cancelTrue>>

\* --------------------------------------------------- saveGeoJSONResults
\* the write stream opens routing_results_<jobId>.geojson (created or
\* truncated); the writes are still buffered
saveOpen(j) ==
    /\ proc[j].pc = "save_open"
    /\ resultsDir' = Put(resultsDir, getGeoJSONFilePath(j), PartialFile)
    /\ proc' = [proc EXCEPT ![j].pc = "save_end"]
    /\ UNCHANGED <<nonJob, config, metadataDir, purgeAt, files, uploadDir, jobs, jobResults, cancelAt, cleanupAt,
                   published, freeIds, cancelTrue>>

\* writeStream.end calls back. writeOk: everything was flushed; the file is
\* complete unless its path was unlinked after the open (then the data went
\* to the unlinked file). Otherwise the callback carries a write error and
\* the catch block goes to unlink the partial file.
saveEnd(j, writeOk) ==
    /\ proc[j].pc = "save_end"
    /\ IF writeOk
       THEN /\ resultsDir' = IF hasGeoJSONFile(resultsDir, j)
                             THEN Put(resultsDir, getGeoJSONFilePath(j),
                                      CompleteFile(proc[j].results))
                             ELSE resultsDir
            /\ proc' = [proc EXCEPT ![j].pc = "save_stat"]
       ELSE /\ proc' = [proc EXCEPT ![j].pc = "save_unlink"]
            /\ UNCHANGED resultsDir
    /\ UNCHANGED <<nonJob, config, metadataDir, purgeAt, files, uploadDir, jobs, jobResults, cancelAt, cleanupAt,
                   published, freeIds, cancelTrue>>

\* cleanupCompletedJob up to its return: nothing when the job is not in the
\* registry; otherwise fileService.deleteFile(job.fileId) is started and the
\* 30 s timer that purges the job is set
cleanupCompletedJob(A, J, jobId) ==
    IF jobId \notin DOMAIN J THEN A
    ELSE [A EXCEPT ![jobId] = [delFile |-> TRUE, timer |-> TRUE]]

\* processJob after saveGeoJSONResults returned or threw (the error is only
\* logged): updateJobStatus(jobId, 'completed'), then cleanupCompletedJob
\* when IMMEDIATE_CLEANUP is on
processJobComplete(j) ==
    /\ jobs' = updateJobStatus(jobs, j, "completed", NoError)
    /\ published' = IF j \in DOMAIN jobs
                    THEN sendStatusUpdate(published, j, "completed")
                    ELSE published
    /\ proc' = [proc EXCEPT ![j].pc = "done"]
    /\ purgeAt' = IF immediateCleanup
                  THEN cleanupCompletedJob(purgeAt, jobs, j)
                  ELSE purgeAt

\* fs.stat on the written file: on success saveGeoJSONResults returns; when
\* the file is gone it throws and the catch block goes to unlink it
saveStat(j) ==
    /\ proc[j].pc = "save_stat"
    /\ IF hasGeoJSONFile(resultsDir, j)
       THEN processJobComplete(j)
       ELSE /\ proc' = [proc EXCEPT ![j].pc = "save_unlink"]
            /\ UNCHANGED <<jobs, published, purgeAt>>
    /\ UNCHANGED <<nonJob, config, metadataDir, files, uploadDir, jobResults, resultsDir, cancelAt,
                   cleanupAt, freeIds, cancelTrue>>

\* the catch block of saveGeoJSONResults: fs.unlink of the partial file
\* (a failure to unlink is logged), then the error is rethrown to processJob
saveUnlink(j) ==
    /\ proc[j].pc = "save_unlink"
    /\ resultsDir' = Del(resultsDir, getGeoJSONFilePath(j))
    /\ processJobComplete(j)
    /\ UNCHANGED <<nonJob, config, metadataDir, files, uploadDir, jobResults, cancelAt, cleanupAt, freeIds, cancelTrue>>

\* ------------------------------------------------------------ cancelJob
\* mutant of cancelAccepts: only a completed job is turned away
cancelAcceptsNotCompleted(J, jobId) ==
    /\ jobId \in DOMAIN J
    /\ J[jobId].status # "completed"

\* cancelJob goes on past its two early returns
cancelAccepts(J, jobId) ==
    /\ jobId \in DOMAIN J
    /\ J[jobId].status \notin {"completed", "failed"}

\* cancelJob up to its first await (hasGeoJSONFile), or to an early return
cancelJob(j) ==
    IF cancelAccepts(jobs, j)
    THEN /\ jobs' = updateJobStatus(jobs, j, "failed", CancelMsg)
         /\ published' = sendStatusUpdate(published, j, "failed")
         /\ jobResults' = Del(jobResults, j)
         /\ cancelAt' = [cancelAt EXCEPT ![j].has = @ + 1]
         /\ UNCHANGED <<nonJob, config, metadataDir, purgeAt, files, uploadDir, resultsDir, proc, cleanupAt,
                        freeIds, cancelTrue>>
    ELSE \* return false
         UNCHANGED vars

\* the end of cancelJob: sendStatusUpdate(jobId, 'failed'); return true
cancelReturn(j) ==
    /\ published' = sendStatusUpdate(published, j, "failed")
    /\ cancelTrue' = [cancelTrue EXCEPT ![j] = @ + 1]

\* hasGeoJSONFile resolves in a suspended cancelJob
cancelHasFile(j) ==
    /\ cancelAt[j].has > 0
    /\ IF hasGeoJSONFile(resultsDir, j)
       THEN /\ cancelAt' = [cancelAt EXCEPT ![j].has = @ - 1,
                                            ![j].del = @ + 1]
            /\ UNCHANGED <<published, cancelTrue>>
       ELSE /\ cancelAt' = [cancelAt EXCEPT ![j].has = @ - 1]
            /\ cancelReturn(j)
    /\ UNCHANGED <<nonJob, config, metadataDir, purgeAt, files, uploadDir, jobs, jobResults, resultsDir, proc,
                   cleanupAt, freeIds>>

\* deleteGeoJSONFile resolves or throws (file already gone; only logged) in
\* a suspended cancelJob
cancelDelete(j) ==
    /\ cancelAt[j].del > 0
    /\ resultsDir' = Del(resultsDir, getGeoJSONFilePath(j))
    /\ cancelAt' = [cancelAt EXCEPT ![j].del = @ - 1]
    /\ cancelReturn(j)
    /\ UNCHANGED <<nonJob, config, metadataDir, purgeAt, files, uploadDir, jobs, jobResults, proc, cleanupAt,
                   freeIds>>

\* ----------------------------------------------------------- cleanupJob
\* cleanupJob goes on past its early return
cleanupAccepts(J, jobId) == jobId \in DOMAIN J

CleanupInflight(j) ==
    cleanupAt[j].delFile + cleanupAt[j].has + cleanupAt[j].del

\* cleanupJob up to its first await (fileService.deleteFile), or to its
\* early return
cleanupJob(j) ==
    IF cleanupAccepts(jobs, j)
    THEN /\ CleanupInflight(j) < MaxCleanupInflight
         /\ cleanupAt' = [cleanupAt EXCEPT ![j].delFile = @ + 1]
         /\ UNCHANGED <<nonJob, config, metadataDir, purgeAt, files, uploadDir, jobs, jobResults, resultsDir, proc,
                        cancelAt, published, freeIds, cancelTrue>>
    ELSE \* return false
         UNCHANGED vars

\* fileService.deleteFile(job.fileId) resolves (or throws, only logged) in a
\* suspended cleanupJob: the upload is unlinked when it is there
cleanupDeleteFile(j) ==
    /\ cleanupAt[j].delFile > 0
    /\ uploadDir' = Del(uploadDir, proc[j].fileId)
    /\ cleanupAt' = [cleanupAt EXCEPT ![j].delFile = @ - 1, ![j].has = @ + 1]
    /\ UNCHANGED <<nonJob, config, metadataDir, purgeAt, files, jobs, jobResults, resultsDir, proc, cancelAt,
                   published, freeIds, cancelTrue>>

\* the end of cleanupJob: jobs.delete, jobResults.delete; return true
cleanupReturn(j) ==
    /\ jobs' = Del(jobs, j)
    /\ jobResults' = Del(jobResults, j)

\* hasGeoJSONFile resolves in a suspended cleanupJob
cleanupHasFile(j) ==
    /\ cleanupAt[j].has > 0
    /\ IF hasGeoJSONFile(resultsDir, j)
       THEN /\ cleanupAt' = [cleanupAt EXCEPT ![j].has = @ - 1,
                                              ![j].del = @ + 1]
            /\ UNCHANGED <<jobs, jobResults>>
       ELSE /\ cleanupAt' = [cleanupAt EXCEPT ![j].has = @ - 1]
            /\ cleanupReturn(j)
    /\ UNCHANGED <<nonJob, config, metadataDir, purgeAt, files, uploadDir, resultsDir, proc, cancelAt, published,
                   freeIds, cancelTrue>>

\* deleteGeoJSONFile resolves or throws (only logged) in a suspended
\* cleanupJob
cleanupDeleteGeo(j) ==
    /\ cleanupAt[j].del > 0
    /\ resultsDir' = Del(resultsDir, getGeoJSONFilePath(j))
    /\ cleanupAt' = [cleanupAt EXCEPT ![j].del = @ - 1]
    /\ cleanupReturn(j)
    /\ UNCHANGED <<nonJob, config, metadataDir, purgeAt, files, uploadDir, proc, cancelAt, published, freeIds,
                   cancelTrue>>

\* -------------------------------------------------- cleanupCompletedJob
\* the fileService.deleteFile started by cleanupCompletedJob resolves (or
\* throws, only logged): the upload is unlinked when it is there
immediateDeleteFile(j) ==
    /\ purgeAt[j].delFile
    /\ uploadDir' = Del(uploadDir, proc[j].fileId)
    /\ purgeAt' = [purgeAt EXCEPT ![j].delFile = FALSE]
    /\ UNCHANGED <<nonJob, config, metadataDir, files, jobs, jobResults, resultsDir,
                   proc, cancelAt, cleanupAt, published, freeIds, cancelTrue>>

\* the 30 s timer of cleanupCompletedJob fires: jobs.delete,
\* jobResults.delete
immediatePurge(j) ==
    /\ purgeAt[j].timer
    /\ jobs' = Del(jobs, j)
    /\ jobResults' = Del(jobResults, j)
    /\ purgeAt' = [purgeAt EXCEPT ![j].timer = FALSE]
    /\ UNCHANGED <<nonJob, config, metadataDir, files, uploadDir, resultsDir, proc,
                   cancelAt, cleanupAt, published, freeIds, cancelTrue>>

\* -------------------------------------------------------- cleanupOldJobs
\* mutant of toDelete: only jobs that are completed or failed are taken
toDeleteTerminalOnly(J, keep) ==
    {j \in DOMAIN J :
        /\ J[j].status \in Terminal
        /\ Cardinality({k \in DOMAIN J :
                            J[k].startedAt > J[j].startedAt}) >= keep}

\* jobEntries sorted by startedAt, newest first, then slice(maxJobsKept):
\* the jobs that have at least maxJobsKept newer jobs in the registry
toDelete(J, keep) ==
    {j \in DOMAIN J :
        Cardinality({k \in DOMAIN J : J[k].startedAt > J[j].startedAt})
            >= keep}

\* the cleanup timer (setInterval) fires: cleanupOldJobs
cleanupOldJobs ==
    /\ jobs' = [j \in DOMAIN jobs \ toDelete(jobs, maxJobsKept) |-> jobs[j]]
    /\ jobResults' = [j \in DOMAIN jobResults \ toDelete(jobs, maxJobsKept)
                        |-> jobResults[j]]
    /\ UNCHANGED <<nonJob, config, metadataDir, purgeAt, files, uploadDir, resultsDir,
                   proc, cancelAt, cleanupAt, published, freeIds, cancelTrue>>

\* ------------------------------------------------------------- routes
\* GET /status/:jobId
statusEndpoint(J, jobId) ==
    IF jobId \notin DOMAIN J
    THEN [code |-> 404, error |-> "Job not found"]
    ELSE [code |-> 200, data |-> J[jobId]]

\* JobService.generateExport: null unless the job is completed and has
\* stored results
generateExport(J, R, jobId) ==
    IF jobId \notin DOMAIN J \/ jobId \notin DOMAIN R
    THEN [null |-> TRUE]
    ELSE IF J[jobId].status # "completed"
    THEN [null |-> TRUE]
    ELSE [null |-> FALSE, results |-> R[jobId], summary |-> Summary(R[jobId])]

\* mutant of resultsEndpoint: only a job that is still running is answered
\* 'Job not completed yet'
resultsEndpointRunningOnly(J, R, jobId) ==
    IF jobId \notin DOMAIN J
    THEN [code |-> 404, error |-> "Job not found"]
    ELSE IF J[jobId].status \notin Terminal
    THEN [code |-> 400, error |-> "Job not completed yet"]
    ELSE IF generateExport(J, R, jobId).null
    THEN [code |-> 500, error |-> "Failed to generate results"]
    ELSE [code |-> 200, data |-> generateExport(J, R, jobId)]

\* GET /results/:jobId
resultsEndpoint(J, R, jobId) ==
    IF jobId \notin DOMAIN J
    THEN [code |-> 404, error |-> "Job not found"]
    ELSE IF J[jobId].status # "completed"
    THEN [code |-> 400, error |-> "Job not completed yet"]
    ELSE IF generateExport(J, R, jobId).null
    THEN [code |-> 500, error |-> "Failed to generate results"]
    ELSE [code |-> 200, data |-> generateExport(J, R, jobId)]

\* GET /export/:jobId, with the registry and the disk as they are when the
\* request is handled: the file on disk, or the features generated from the
\* stored results when there is no file
exportEndpoint(J, R, D, jobId) ==
    IF jobId \notin DOMAIN J
    THEN [code |-> 404, error |-> "Job not found"]
    ELSE IF J[jobId].status # "completed"
    THEN [code |-> 400, error |-> "Job not completed yet"]
    ELSE IF hasGeoJSONFile(D, jobId)
    THEN [code |-> 200, file |-> D[getGeoJSONFilePath(jobId)]]
    ELSE IF generateExport(J, R, jobId).null
    THEN [code |-> 500, error |-> "Results not available"]
    ELSE [code |-> 200, file |-> CompleteFile(R[jobId])]

\* GET /export/:jobId/:format, likewise
exportFormatEndpoint(J, R, D, jobId) ==
    IF jobId \notin DOMAIN J
    THEN [code |-> 404, error |-> "Job not found"]
    ELSE IF J[jobId].status # "completed"
    THEN [code |-> 400, error |-> "Job not completed yet"]
    ELSE IF generateExport(J, R, jobId).null
    THEN [code |-> 500, error |-> "Results not available"]
    ELSE IF hasGeoJSONFile(D, jobId)
    THEN [code |-> 200, file |-> D[getGeoJSONFilePath(jobId)]]
    ELSE [code |-> 200, file |-> CompleteFile(R[jobId])]

\* ----------------------------------------------------------------- Next
\* the ids createJob has returned: the ids a client can name in a call (an
\* id purged by cleanupJob is the id of a job that does not exist)
Issued == {j \in JobIds : proc[j].pc # "idle"}

Next ==
    \/ \E f \in FileIds \cup {"unknown"}, projectionOk \in BOOLEAN :
          createJobRejected(f, projectionOk)
    \/ \E f \in FileIds : createJob(f)
    \/ \E j \in JobIds : processJobRead(j)
    \/ \E j \in JobIds, pos \in 1..BATCH_SIZE, routeOk \in BOOLEAN :
          routeSettled(j, pos, routeOk)
    \/ \E j \in JobIds : saveOpen(j)
    \/ \E j \in JobIds, writeOk \in BOOLEAN : saveEnd(j, writeOk)
    \/ \E j \in JobIds : saveStat(j)
    \/ \E j \in JobIds : saveUnlink(j)
    \/ \E j \in Issued : cancelJob(j)
    \/ \E j \in JobIds : cancelHasFile(j)
    \/ \E j \in JobIds : cancelDelete(j)
    \/ \E j \in Issued : cleanupJob(j)
    \/ \E j \in JobIds : cleanupDeleteFile(j)
    \/ \E j \in JobIds : cleanupHasFile(j)
    \/ \E j \in JobIds : cleanupDeleteGeo(j)

Spec == Init /\ [][Next]_vars

\* a step of the dispatcher of job j: an await of processJob is resumed
DispatcherStep(j) ==
    \/ processJobRead(j)
    \/ \E pos \in 1..BATCH_SIZE, routeOk \in BOOLEAN :
          routeSettled(j, pos, routeOk)
    \/ saveOpen(j)
    \/ \E writeOk \in BOOLEAN : saveEnd(j, writeOk)
    \/ saveStat(j)
    \/ saveUnlink(j)

\* the service when every routing request settles and every file operation
\* of a dispatcher returns: a dispatcher that can be resumed is resumed
SpecLive == Spec /\ \A j \in JobIds : WF_vars(DispatcherStep(j))

\* --------------------------------------------------- graceful shutdown
\* process.on('SIGTERM') and process.on('SIGINT'): server.close, after which
\* the server takes no new connection
onSignal ==
    /\ server = "listening"
    /\ server' = "closing"
    /\ UNCHANGED <<engine, extraction, sockets, postProcessing, validating>>

\* the callback of server.close, when the connections have ended:
\* process.exit(0)
onServerClosed ==
    /\ server = "closing"
    /\ server' = "exited"
    /\ UNCHANGED <<engine, extraction, sockets, postProcessing, validating>>

\* the service until the process exits: nothing runs after process.exit
NextShutdown ==
    \/ server # "exited" /\ Next
    \/ onSignal
    \/ onServerClosed

SpecShutdown == Init /\ [][NextShutdown]_vars

\* the cancelJob and cleanupJob calls suspended at an await, over all jobs
InflightCalls ==
    LET n(j) == cancelAt[j].has + cancelAt[j].del + cleanupAt[j].delFile
                + cleanupAt[j].has + cleanupAt[j].del
    IN  n(1) + n(2)

\* the service with two jobs and the timers of the housekeeping; a client
\* call is made while fewer than MaxInflightCalls calls are suspended
NextHousekeeping ==
    \/ \E f \in FileIds \cup {"unknown"}, projectionOk \in BOOLEAN :
          createJobRejected(f, projectionOk)
    \/ \E f \in FileIds : createJob(f)
    \/ \E j \in JobIds : processJobRead(j)
    \/ \E j \in JobIds, pos \in 1..BATCH_SIZE, routeOk \in BOOLEAN :
          routeSettled(j, pos, routeOk)
    \/ \E j \in JobIds : saveOpen(j)
    \/ \E j \in JobIds, writeOk \in BOOLEAN : saveEnd(j, writeOk)
    \/ \E j \in JobIds : saveStat(j)
    \/ \E j \in JobIds : saveUnlink(j)
    \/ \E j \in Issued : InflightCalls < MaxInflightCalls /\ cancelJob(j)
    \/ \E j \in JobIds : cancelHasFile(j)
    \/ \E j \in JobIds : cancelDelete(j)
    \/ \E j \in Issued : InflightCalls < MaxInflightCalls /\ cleanupJob(j)
    \/ \E j \in JobIds : cleanupDeleteFile(j)
    \/ \E j \in JobIds : cleanupHasFile(j)
    \/ \E j \in JobIds : cleanupDeleteGeo(j)
    \/ cleanupOldJobs
    \/ \E j \in JobIds : immediateDeleteFile(j)
    \/ \E j \in JobIds : immediatePurge(j)

SpecHousekeeping == InitHousekeeping /\ [][NextHousekeeping]_vars

\* =============================================================== claims
\* the result file of job j
ResultFile(j) == resultsDir[getGeoJSONFilePath(j)]

JobsKept(j) == j \in DOMAIN jobs /\ j \in DOMAIN jobs'

\* the transitions of the state machine: pending, processing, then
\* completed or failed
Forward(a, b) ==
    \/ a = b
    \/ a = "pending" /\ b \in {"processing", "failed"}
    \/ a = "processing" /\ b \in Terminal

\* C1: in every step, the status of a job that stays in the registry is
\* unchanged or moves forward (pending -> processing -> completed | failed);
\* in particular a completed or failed job keeps its status.
C1_StatusOnlyMovesForward ==
    [][\A j \in JobIds :
          JobsKept(j) => Forward(jobs[j].status, jobs'[j].status)]_vars

\* C2: once cancelJob(j) has returned true, j (while in the registry) is
\* failed with the cancellation message and has no result file on disk.
C2_CancelledStaysCancelled ==
    \A j \in JobIds :
        (cancelTrue[j] > 0 /\ j \in DOMAIN jobs) =>
            /\ jobs[j].status = "failed"
            /\ jobs[j].error = CancelMsg
            /\ ~ hasGeoJSONFile(resultsDir, j)

\* C3: processed = successful + failed in every state of every job.
C3_ProcessedIsSum ==
    \A j \in DOMAIN jobs :
        jobs[j].progress.processed =
            jobs[j].progress.successful + jobs[j].progress.failed

\* C3 witness: a job that has counted successful and failed rows
C3_Witness ==
    \E j \in DOMAIN jobs :
        /\ jobs[j].progress.successful > 0
        /\ jobs[j].progress.failed > 0

\* C4: processed <= total in every state, total is the upload's rowCount,
\* and a completed job has processed = total.
C4_ProcessedWithinTotal ==
    \A j \in DOMAIN jobs :
        /\ jobs[j].progress.total = files[jobs[j].fileId].rowCount
        /\ jobs[j].progress.processed <= jobs[j].progress.total
        /\ jobs[j].status = "completed" =>
               jobs[j].progress.processed = jobs[j].progress.total

\* C4 witness: a completed job whose upload spans more than one B-window,
\* the last one short
C4_Witness ==
    \E j \in DOMAIN jobs :
        /\ jobs[j].status = "completed"
        /\ jobs[j].progress.total > BATCH_SIZE
        /\ jobs[j].progress.processed = jobs[j].progress.total

\* C5: in every step, a job that is completed or failed (and stays in the
\* registry) keeps its progress counters.
C5_TerminalProgressFrozen ==
    [][\A j \in JobIds :
          (JobsKept(j) /\ jobs[j].status \in Terminal) =>
              jobs'[j].progress = jobs[j].progress]_vars

\* C6: in every step, processed, successful and failed of a job that stays
\* in the registry do not decrease and total does not change (so the same
\* holds between any two observations).
C6_CountersMonotone ==
    [][\A j \in JobIds :
          JobsKept(j) =>
              /\ jobs'[j].progress.processed >= jobs[j].progress.processed
              /\ jobs'[j].progress.successful >= jobs[j].progress.successful
              /\ jobs'[j].progress.failed >= jobs[j].progress.failed
              /\ jobs'[j].progress.total = jobs[j].progress.total]_vars

\* C6 witness: a job whose counters have been advanced by two B-windows
C6_Witness ==
    \E j \in DOMAIN jobs :
        /\ jobs[j].progress.processed > BATCH_SIZE
        /\ jobs[j].progress.successful > 0

SeqRange(s) == {s[k] : k \in 1..Len(s)}
NoDuplicates(s) == \A a, b \in 1..Len(s) : s[a] = s[b] => a = b

\* C7: a completely written result file holds exactly one feature for each
\* row the daemon answered with a route and none for any other row, and as
\* many features as the summary's successful count.
C7_OneFeaturePerSuccess ==
    \A j \in JobIds :
        (hasGeoJSONFile(resultsDir, j) /\ ResultFile(j).footer) =>
            /\ NoDuplicates(ResultFile(j).features)
            /\ SeqRange(ResultFile(j).features) = proc[j].routed
            /\ Len(ResultFile(j).features) = ResultFile(j).summary.successful
            /\ ResultFile(j).totalFeatures = ResultFile(j).summary.successful

\* C7 witness: a written file with features, for a job that also has failed
\* rows of each kind (parse, transformation, routing)
C7_Witness ==
    \E j \in {x \in JobIds : hasGeoJSONFile(resultsDir, x)} :
        /\ ResultFile(j).footer
        /\ Len(ResultFile(j).features) >= 1
        /\ \E a, b, c \in 1..Len(proc[j].fileData) :
              /\ proc[j].fileData[a] = "bad"
              /\ proc[j].fileData[b] = "xform"
              /\ proc[j].fileData[c] = "ok"
              /\ (c - 1) \notin proc[j].routed

\* C8: the features of a result file are in strictly ascending rowIndex
\* order.
C8_FeaturesAscending ==
    \A j \in {x \in JobIds : hasGeoJSONFile(resultsDir, x)} :
        \A a, b \in 1..Len(ResultFile(j).features) :
            a < b => ResultFile(j).features[a] < ResultFile(j).features[b]

\* C8 witness: a written file with features of two K-windows, the requests
\* of the first window having settled in the reverse of submission order is
\* among the behaviours that reach it
C8_Witness ==
    \E j \in {x \in JobIds : hasGeoJSONFile(resultsDir, x)} :
        /\ ResultFile(j).footer
        /\ Len(ResultFile(j).features) > OSRM_MAX_CONCURRENT
        /\ ResultFile(j).summary.failed > 0

CancelInflight(j) == cancelAt[j].has + cancelAt[j].del

\* a cancelJob(j) call made in the current state goes past the early returns
CancelProceeds(j) == cancelJob(j) /\ CancelInflight(j)' = CancelInflight(j) + 1

\* a cancelJob(j) call made in the current state changes something
CancelChanges(j) == cancelJob(j) /\ vars' # vars

\* C9: a cancelJob call goes on to return true exactly when the job exists
\* with status pending or processing; a call on a job that is terminal (or
\* unknown) changes no job record, stored results or file and publishes
\* nothing; at most one call per job returns true.
C9_CancelOnlyNonTerminal ==
    \A j \in JobIds :
        /\ (ENABLED CancelProceeds(j)) <=>
               (j \in DOMAIN jobs /\ jobs[j].status \in {"pending", "processing"})
        /\ (j \notin DOMAIN jobs \/ jobs[j].status \in Terminal) =>
               ~ ENABLED CancelChanges(j)
        /\ cancelTrue[j] + CancelInflight(j) <= 1

\* C9 witness: one cancelJob call on the job has returned true and the job,
\* now terminal, is still in the registry for a later call to name
C9_Witness ==
    \E j \in JobIds :
        /\ cancelTrue[j] = 1
        /\ j \in DOMAIN jobs
        /\ jobs[j].status \in Terminal
        /\ ~ ENABLED CancelProceeds(j)

\* C10: a cleanupJob call goes on (to purge the job and return true) only
\* when the job is completed or failed.
C10_CleanupOnlyTerminal ==
    [][\A j \in JobIds :
          CleanupInflight(j)' > CleanupInflight(j) =>
              (j \in DOMAIN jobs /\ jobs[j].status \in Terminal)]_vars

\* C11: a step of a cleanupJob call leaves the upload directory as it is:
\* the upload the job's configuration names stays on disk.
C11_CleanupKeepsUpload ==
    [][(\E j \in JobIds : cleanupAt'[j] # cleanupAt[j]) =>
           uploadDir' = uploadDir]_vars

\* a cleanupJob(j) call made in the current state goes past the early return
CleanupProceeds(j) ==
    cleanupJob(j) /\ CleanupInflight(j)' = CleanupInflight(j) + 1

\* a cleanupJob(j) call has returned true (with no timer of the housekeeping
\* running, only cleanupJob removes a job from the registry)
CleanupReturnedTrue(j) == proc[j].pc # "idle" /\ j \notin DOMAIN jobs

\* C12: once a cleanupJob(j) call has returned true, a later cleanupJob(j)
\* call returns false and no result file of j is on disk.
C12_CleanupIdempotent ==
    \A j \in JobIds :
        CleanupReturnedTrue(j) =>
            /\ ~ ENABLED CleanupProceeds(j)
            /\ ~ hasGeoJSONFile(resultsDir, j)

\* the terminal events (job_completed, job_failed) published for job j
TerminalEvents(j) == published[j].job_completed + published[j].job_failed

\* C15: over the lifetime of a job at most one terminal event is published
\* for it, and exactly one once it is completed or failed.
C15_OneTerminalEvent ==
    \A j \in JobIds :
        /\ TerminalEvents(j) <= 1
        /\ (j \in DOMAIN jobs /\ jobs[j].status \in Terminal) =>
               TerminalEvents(j) = 1

\* the step in which processJob gets the error of a failed save
SaveFailedStep(j) ==
    proc[j].pc = "save_unlink" /\ proc'[j].pc = "done" /\ j \in DOMAIN jobs'

\* C16: when writing the result file fails, the job ends failed
\* with an error, not completed.
C16_WriteErrorFailsJob ==
    [][\A j \in JobIds :
          SaveFailedStep(j) =>
              jobs'[j].status = "failed" /\ jobs'[j].error # NoError]_vars

\* C17: for a completed job the metadata file routing_metadata_<jobId> is
\* on disk exactly when the result file routing_results_<jobId> is.
C17_MetadataIffResult ==
    \A j \in DOMAIN jobs :
        jobs[j].status = "completed" =>
            (j \in metadataDir <=> hasGeoJSONFile(resultsDir, j))

\* the id was given to a job that is no longer in the registry
Purged(j) == proc[j].pc # "idle" /\ j \notin DOMAIN jobs

\* every query for the id is answered 404
AnswersNotFound(J, R, D, j) ==
    /\ statusEndpoint(J, j).code = 404
    /\ resultsEndpoint(J, R, j).code = 404
    /\ exportEndpoint(J, R, D, j).code = 404
    /\ exportFormatEndpoint(J, R, D, j).code = 404

\* C13: once a job has been purged (by cleanupJob, by cleanupOldJobs or by
\* the timer of cleanupCompletedJob) it stays out of the registry: no later
\* step of its dispatcher or of a suspended call stores a record for its id,
\* and the status, results and export queries answer not found.
C13_PurgedStaysNotFound ==
    [][\A j \in JobIds :
          Purged(j) =>
              /\ AnswersNotFound(jobs, jobResults, resultsDir, j)
              /\ Purged(j)'
              /\ AnswersNotFound(jobs', jobResults', resultsDir', j)]_vars

\* C13 witness: a purged job whose dispatcher went on and stored results
\* and a result file for the id afterwards
C13_Witness ==
    \E j \in JobIds :
        /\ Purged(j)
        /\ j \in DOMAIN jobResults
        /\ hasGeoJSONFile(resultsDir, j)
        /\ AnswersNotFound(jobs, jobResults, resultsDir, j)

\* the step is cleanupOldJobs removing job j
Evicts(j) ==
    /\ j \in DOMAIN jobs
    /\ j \notin DOMAIN jobs'
    /\ cleanupAt' = cleanupAt
    /\ purgeAt' = purgeAt

\* C14: cleanupOldJobs removes only jobs that are completed or failed, and
\* never one that started after a completed or failed job it keeps.
C14_EvictsOnlyTerminal ==
    [][\A j \in JobIds :
          Evicts(j) =>
              /\ jobs[j].status \in Terminal
              /\ \A k \in DOMAIN jobs' :
                     jobs[k].status \in Terminal =>
                         jobs[k].startedAt > jobs[j].startedAt]_vars

\* a createJob call with these arguments
CreateCall(fileId, projectionOk) ==
    \/ createJobRejected(fileId, projectionOk)
    \/ projectionOk /\ createJob(fileId)

\* a createJob call with these arguments made in the current state changes
\* something
CreateChanges(fileId, projectionOk) ==
    CreateCall(fileId, projectionOk) /\ vars' # vars

\* C18: a createJob call with an unknown fileId or an unknown projection
\* changes nothing; a job enters the registry only under an id never used
\* before, for a known upload, with total = the upload's rowCount and the
\* other counters 0, not terminal, and with its dispatcher started.
C18_CreateJobContract ==
    [][/\ \A f \in FileIds \cup {"unknown"}, p \in BOOLEAN :
              (f \notin DOMAIN files \/ ~p) => ~ ENABLED CreateChanges(f, p)
       /\ \A j \in JobIds :
              (j \notin DOMAIN jobs /\ j \in DOMAIN jobs') =>
                  /\ j \in freeIds /\ j \notin freeIds'
                  /\ proc[j].pc = "idle" /\ proc'[j].pc # "idle"
                  /\ jobs'[j].fileId \in DOMAIN files
                  /\ jobs'[j].progress =
                         [total |-> files[jobs'[j].fileId].rowCount,
                          processed |-> 0, successful |-> 0, failed |-> 0]
                  /\ jobs'[j].status \in {"pending", "processing"}]_vars

\* C18 witness: a second job created for an upload with rows, after the
\* first job was purged
C18_Witness ==
    /\ 2 \in DOMAIN jobs
    /\ Purged(1)
    /\ jobs[2].progress.total > 0
    /\ jobs[2].status = "processing"

\* no handler of job j takes part in the step
Bystander(j) ==
    /\ proc'[j] = proc[j]
    /\ cancelAt'[j] = cancelAt[j]
    /\ cleanupAt'[j] = cleanupAt[j]
    /\ purgeAt'[j] = purgeAt[j]

\* what is at path p of the results directory
FileAt(D, p) ==
    IF p \in DOMAIN D THEN [there |-> TRUE, file |-> D[p]]
    ELSE [there |-> FALSE]

\* C19: two jobs have different result-file paths, and a step in which no
\* handler of job j takes part neither writes nor deletes j's result file.
C19_DistinctResultFiles ==
    [][/\ \A a, b \in Issued' :
              a # b => getGeoJSONFilePath(a) # getGeoJSONFilePath(b)
       /\ \A j \in JobIds :
              Bystander(j) =>
                  FileAt(resultsDir', getGeoJSONFilePath(j)) =
                      FileAt(resultsDir, getGeoJSONFilePath(j))]_vars

\* C19 witness: two jobs submitted for the same upload, each with its own
\* complete result file on disk
C19_Witness ==
    /\ proc[1].fileId = proc[2].fileId
    /\ hasGeoJSONFile(resultsDir, 1) /\ ResultFile(1).footer
    /\ hasGeoJSONFile(resultsDir, 2) /\ ResultFile(2).footer

\* the answer a is the one the claim gives for job j
AnswerAsClaimed(a, j) ==
    /\ j \notin DOMAIN jobs => a.code = 404
    /\ (j \in DOMAIN jobs /\ jobs[j].status # "completed") =>
           (a.code = 400 /\ a.error = "Job not completed yet")
    /\ a.code = 200 => (j \in DOMAIN jobs /\ jobs[j].status = "completed")

AllRequestsFailed(j) ==
    /\ \E k \in 1..Len(proc[j].fileData) : proc[j].fileData[k] = "ok"
    /\ proc[j].routed = {}

\* the step is one of calculateBatchRoutes for job j: a request settles
RouteStep(j) == proc[j].pc = "routes" /\ proc'[j] # proc[j]

\* C21: when every routing request of a job has failed, the job whose
\* dispatcher has finished is completed (not failed) with successful = 0 and
\* failed = total; and no step in which a routing request settles, failed or
\* not, changes the status of the job.
C21_RoutingFailureStillCompletes ==
    /\ [](\A j \in DOMAIN jobs :
             (proc[j].pc = "done" /\ AllRequestsFailed(j)) =>
                 /\ jobs[j].status = "completed"
                 /\ jobs[j].progress.successful = 0
                 /\ jobs[j].progress.failed = jobs[j].progress.total)
    /\ [][\A j \in JobIds :
             (RouteStep(j) /\ JobsKept(j)) =>
                 jobs'[j].status = jobs[j].status]_vars

\* C21 witness: a completed job over two B-windows of rows that all became
\* routing requests, every one of them failed
C21_Witness ==
    \E j \in DOMAIN jobs :
        /\ jobs[j].status = "completed"
        /\ AllRequestsFailed(j)
        /\ \A k \in 1..Len(proc[j].fileData) : proc[j].fileData[k] = "ok"
        /\ Len(proc[j].fileData) > BATCH_SIZE
        /\ jobs[j].progress.failed = Len(proc[j].fileData)

\* the text of the field is a number: it is there, not empty, and made of
\* digits only
Numeric(field) ==
    /\ field.present
    /\ field.text # <<>>
    /\ \A k \in 1..Len(field.text) : field.text[k] = "1"

\* C22: a row with a missing or non-numeric coordinate field fails the
\* coordinate extraction: a failed result is recorded for it and it gives
\* no coordinates to make a routing request from.
C22_NonNumericRowFails ==
    (extracted.done /\ \E f \in CoordinateFields : ~ Numeric(row[f])) =>
        extracted.null

\* no cancelJob or cleanupJob call has gone past its early returns for job j,
\* which is in the registry
Undisturbed(j) ==
    /\ j \in DOMAIN jobs
    /\ cancelTrue[j] = 0
    /\ CancelInflight(j) = 0
    /\ CleanupInflight(j) = 0

\* the result file of job j is complete and holds no feature and a summary
\* of zeros
EmptyCollection(j) ==
    /\ ResultFile(j).footer
    /\ ResultFile(j).features = <<>>
    /\ ResultFile(j).totalFeatures = 0
    /\ ResultFile(j).summary = [total |-> 0, successful |-> 0, failed |-> 0]

\* C23: a job over an upload without rows, left alone by cancelJob and
\* cleanupJob, whose dispatcher has finished is completed with processed =
\* successful = failed = 0, has made no routing request and has stored an
\* empty result list; the result file it has written is a complete
\* collection of zero features with a summary of zeros, and it is on disk
\* when the save did not fail.
C23_EmptyUploadCompletes ==
    /\ [](\A j \in JobIds :
             (/\ Undisturbed(j)
              /\ proc[j].pc = "done"
              /\ jobs[j].progress.total = 0) =>
                 /\ jobs[j].status = "completed"
                 /\ jobs[j].progress =
                        [total |-> 0, processed |-> 0, successful |-> 0,
                         failed |-> 0]
                 /\ proc[j].results = <<>>
                 /\ proc[j].routingRequests = <<>>
                 /\ proc[j].routed = {}
                 /\ j \in DOMAIN jobResults /\ jobResults[j] = <<>>
                 /\ hasGeoJSONFile(resultsDir, j) => EmptyCollection(j))
    /\ [][\A j \in JobIds :
             (/\ proc[j].pc = "save_stat" /\ proc'[j].pc = "done"
              /\ Undisturbed(j)'
              /\ jobs[j].progress.total = 0) =>
                 hasGeoJSONFile(resultsDir', j)]_vars

\* C23 witness: a completed job over an upload without rows, with its
\* result file of zero features on disk
C23_Witness ==
    \E j \in JobIds :
        /\ Undisturbed(j)
        /\ jobs[j].status = "completed"
        /\ jobs[j].progress.total = 0
        /\ hasGeoJSONFile(resultsDir, j) /\ EmptyCollection(j)

\* client c is in the subscription set of jobId
Subscribed(c, jobId) ==
    jobId \in DOMAIN jobSubscriptions /\ c \in jobSubscriptions[jobId]

\* the step is a call of broadcastJobUpdate(jobId, data)
BroadcastCall(jobId, data) ==
    broadcastJobUpdate(jobId, data) \/ broadcastNobody(jobId, data)

\* C24: a call broadcastJobUpdate(jobId, data) sends the job_update message
\* of jobId and data, once, to every client that is in the set of jobId with
\* readyState OPEN and whose send does not throw, and sends nothing to a
\* client that is not in the set or not OPEN; whatever the states of the
\* subscribers, the call runs to its end.
C24_BroadcastToSubscribers ==
    /\ [][\A jobId \in JobIds, data \in Payloads :
             broadcastJobUpdate(jobId, data) =>
                 \A c \in Clients :
                     /\ (/\ Subscribed(c, jobId)
                         /\ readyState[c] = "OPEN"
                         /\ c \notin sendErrors') =>
                            inbox'[c] =
                                Append(inbox[c], JobUpdate(jobId, data))
                     /\ (~ Subscribed(c, jobId) \/ readyState[c] # "OPEN") =>
                            inbox'[c] = inbox[c]]_vars
    /\ [](\A jobId \in JobIds, data \in Payloads :
             (Sent + Cardinality(Clients) <= MaxSent) =>
                 ENABLED BroadcastCall(jobId, data))

\* C24 witness: after a broadcast to two subscribers of a job, the send to
\* one of them threw and the other one has the message
C24_Witness ==
    \E c, d \in Clients, jobId \in JobIds :
        /\ c # d
        /\ sendErrors = {c}
        /\ inbox[c] = <<>>
        /\ Subscribed(d, jobId)
        /\ Len(inbox[d]) = 1
        /\ inbox[d][1].jobId = jobId
        /\ \A k \in JobIds : ~ Subscribed(c, k)

\* an unsubscribe message of client c for jobId that leaves c in the set
UnsubscribeKeeps(c, jobId) == onUnsubscribe(c, jobId) /\ Subscribed(c, jobId)'

\* client c is sent a message of jobId in the step
SentUpdateOf(c, jobId) ==
    /\ inbox'[c] # inbox[c]
    /\ inbox'[c][Len(inbox'[c])].jobId = jobId

\* C25: a client whose connection is closed is in no subscription set, stays
\* closed and is sent nothing more; an unsubscribe message for jobId leaves
\* the client out of the set of jobId; a client enters the set of jobId only
\* by its own subscribe message for jobId; and a client that is not in the
\* set of jobId is sent no message of jobId.
C25_GoneClientsGetNothing ==
    /\ [](\A c \in Clients, jobId \in JobIds :
             /\ readyState[c] = "CLOSED" => ~ Subscribed(c, jobId)
             /\ ~ ENABLED UnsubscribeKeeps(c, jobId))
    /\ [][\A c \in Clients :
             /\ readyState[c] = "CLOSED" =>
                    (readyState'[c] = "CLOSED" /\ inbox'[c] = inbox[c])
             /\ \A jobId \in JobIds :
                    /\ (~ Subscribed(c, jobId) /\ Subscribed(c, jobId)') =>
                           onSubscribe(c, jobId)
                    /\ ~ Subscribed(c, jobId) => ~ SentUpdateOf(c, jobId)]_vars

\* C25 witness: a client that was subscribed and was sent a message is
\* closed; a broadcast made after that went to the other client only
C25_Witness ==
    \E c, d \in Clients, jobId \in JobIds :
        /\ c # d
        /\ readyState[c] = "CLOSED"
        /\ Len(inbox[c]) = 1
        /\ inbox[c][1].jobId = jobId
        /\ Subscribed(d, jobId)
        /\ Len(inbox[d]) = 2
        /\ inbox[d][1] = inbox[c][1]
        /\ inbox[d][2].jobId = jobId

\* C26: when every routing request settles and every file operation
\* returns, a job that is in the registry is eventually completed or failed,
\* unless it is removed from the registry.
C26_JobsTerminate ==
    \A j \in JobIds :
        (j \in DOMAIN jobs) ~>
            (j \notin DOMAIN jobs \/ jobs[j].status \in Terminal)

\* C26 witness: a job over two B-windows, each with routing requests, that
\* ran to completed
C26_Witness ==
    \E j \in DOMAIN jobs :
        /\ jobs[j].status = "completed"
        /\ proc[j].pc = "done"
        /\ Len(proc[j].fileData) > BATCH_SIZE
        /\ Cardinality(proc[j].routed) > BATCH_SIZE
        /\ Undisturbed(j)

\* the step fires the requests of a K-window of job j: the first chunk of a
\* calculateBatchRoutes call, or its next chunk
StartsWindow(j) ==
    /\ proc'[j].pc = "routes"
    /\ \/ proc[j].pc # "routes"
       \/ proc'[j].ci # proc[j].ci
       \/ proc'[j].i # proc[j].i

\* C27: once a cancelJob(j) call has returned true, no step fires the
\* requests of a K-window of j and the dispatcher of j takes no further
\* B-window.
C27_NoWindowAfterCancel ==
    [][\A j \in JobIds :
          cancelTrue[j] > 0 =>
              (~ StartsWindow(j) /\ proc'[j].i = proc[j].i)]_vars

\* the requests (positions in routingRequests) of job j that are in flight:
\* those fired and not settled yet, which are those that can settle now
InFlight(j) ==
    IF proc[j].pc = "routes"
    THEN ChunkPositions(j) \ SettledPositions(j)
    ELSE {}

\* the chunk (0-based) of the request at position pos
ChunkOf(pos) == (pos - 1) \div OSRM_MAX_CONCURRENT

\* C28: while a calculateBatchRoutes call is suspended (requests are made
\* nowhere else) at most OSRM_MAX_CONCURRENT requests are in flight, all of
\* the same chunk, and every request of the chunks before it has settled
\* and has its outcome in the results of the call.
C28_BoundedConcurrency ==
    \A j \in {x \in JobIds : proc[x].pc = "routes"} :
        LET inFlight == InFlight(j) IN
        /\ Cardinality(inFlight) <= OSRM_MAX_CONCURRENT
        /\ \A p, q \in inFlight : ChunkOf(p) = ChunkOf(q)
        /\ \A p \in inFlight :
               /\ Len(proc[j].routeResults) =
                      ChunkOf(p) * OSRM_MAX_CONCURRENT
               /\ \A q \in 1..Len(proc[j].routingRequests) :
                      ChunkOf(q) < ChunkOf(p) =>
                          proc[j].routeResults[q].rowIndex =
                              proc[j].routingRequests[q]

\* C28 witness: the second chunk of a call is in flight, after the two
\* requests of the first chunk have settled
C28_Witness ==
    \E j \in JobIds :
        /\ proc[j].pc = "routes"
        /\ Len(proc[j].routingRequests) > OSRM_MAX_CONCURRENT
        /\ InFlight(j) = {OSRM_MAX_CONCURRENT + 1}
        /\ Len(proc[j].routeResults) = OSRM_MAX_CONCURRENT

\* the step in which the calculateBatchRoutes call of job j returns
RoutesReturn(j) ==
    /\ proc[j].pc = "routes"
    /\ proc'[j].pc # "routes" \/ proc'[j].i # proc[j].i

\* C29: when a calculateBatchRoutes call returns, the results gain exactly
\* one outcome for each request of the call, in the order of the requests;
\* the outcome of a request is successful exactly when the daemon answered
\* that request with a route; what follows them in the results belongs to
\* later B-windows.
C29_OutcomesInSubmissionOrder ==
    [][\A j \in JobIds :
          RoutesReturn(j) =>
              LET base == Len(proc[j].results)
                  n == Len(proc[j].routingRequests)
              IN  /\ Len(proc'[j].results) >= base + n
                  /\ SubSeq(proc'[j].results, 1, base) = proc[j].results
                  /\ \A k \in 1..n :
                         /\ proc'[j].results[base + k].rowIndex =
                                proc[j].routingRequests[k]
                         /\ proc'[j].results[base + k].success <=>
                                (proc[j].routingRequests[k] \in proc'[j].routed)
                  /\ \A k \in (base + n + 1)..Len(proc'[j].results) :
                         proc'[j].results[k].rowIndex >=
                             proc[j].i + BATCH_SIZE]_vars

\* C29 witness: a finished job whose first B-window was three requests in
\* two chunks, of which only the second request was answered with a route
C29_Witness ==
    \E j \in JobIds :
        /\ proc[j].pc = "done"
        /\ Len(proc[j].fileData) >= BATCH_SIZE
        /\ \A k \in 1..BATCH_SIZE : proc[j].fileData[k] = "ok"
        /\ proc[j].routed = {1}
        /\ \A k \in 1..BATCH_SIZE :
               /\ proc[j].results[k].rowIndex = k - 1
               /\ proc[j].results[k].success <=> (k = 2)

\* the B-windows the dispatcher has counted in the progress of job j: every
\* window adds its rows to processed, BATCH_SIZE of them but for the last
WindowsProcessed(j) ==
    (jobs[j].progress.processed + BATCH_SIZE - 1) \div BATCH_SIZE

\* C30: for a job in the registry, as many progress events have been
\* published as the dispatcher has processed B-windows: one after each
\* window, whatever the outcomes of its rows.
C30_ProgressEventPerWindow ==
    \A j \in DOMAIN jobs :
        published[j].job_progress = WindowsProcessed(j)

\* what the claim says of a step
EvictionAsClaimed ==
    LET evicted == DOMAIN jobs \ DOMAIN jobs' IN
    /\ Cardinality(DOMAIN jobs') <= maxJobsKept
    /\ DOMAIN jobs' \subseteq DOMAIN jobs
    /\ \A k \in DOMAIN jobs' :
           /\ jobs'[k] = jobs[k]
           /\ \A j \in evicted : jobs[k].startedAt >= jobs[j].startedAt
    /\ \A j \in evicted : j \notin DOMAIN jobResults'
    /\ \A k \in DOMAIN jobResults \ evicted :
           /\ k \in DOMAIN jobResults'
           /\ jobResults'[k] = jobResults[k]
    /\ Cardinality(DOMAIN jobs) <= maxJobsKept =>
           (jobs' = jobs /\ jobResults' = jobResults)

\* C31: a run of cleanupOldJobs, in whatever state the timer fires, leaves
\* at most MAX_JOBS_KEPT records in the registry, no record it keeps started
\* before one it evicts, the stored results of an evicted job go with its
\* record, and it removes nothing when the registry holds at most
\* MAX_JOBS_KEPT records.
C31_EvictionKeepsNewest == ENABLED (cleanupOldJobs /\ EvictionAsClaimed)

\* C31 witness: a job has been evicted by cleanupOldJobs (its upload is still
\* on disk and no timer purges jobs, so neither cleanupJob nor
\* cleanupCompletedJob removed it) and the registry holds MAX_JOBS_KEPT
\* records
C31_Witness ==
    \E j \in JobIds :
        /\ Purged(j)
        /\ ~ immediateCleanup
        /\ proc[j].fileId \in DOMAIN uploadDir
        /\ Cardinality(DOMAIN jobs) = maxJobsKept
        /\ maxJobsKept > 0

\* the read of job j's upload ends in this step and the upload is not in the
\* upload directory
ReadFails(j) ==
    /\ processJobRead(j)
    /\ proc[j].fileId \notin DOMAIN uploadDir

\* the dispatcher of job j has ended on a failed read
EndedOnReadFailure(j) ==
    /\ j \in DOMAIN jobs
    /\ proc[j].pc = "done"
    /\ jobs[j].error = ReadMsg

\* C32: when the upload of a job is gone at the time its dispatcher reads it,
\* the dispatcher ends there: the job of the registry gets status failed and
\* an error, no row is processed, no routing request is made, nothing is
\* stored and no result file is written; and the job stays so.
C32_ReadFailureFailsJob ==
    /\ [][\A j \in JobIds :
             ReadFails(j) =>
                 /\ proc'[j].pc = "done"
                 /\ proc'[j].routingRequests = <<>> /\ proc'[j].routed = {}
                 /\ resultsDir' = resultsDir
                 /\ jobResults' = jobResults
                 /\ j \in DOMAIN jobs =>
                        /\ jobs'[j].status = "failed"
                        /\ jobs'[j].error # NoError
                        /\ jobs'[j].progress = jobs[j].progress]_vars
    /\ [](\A j \in JobIds :
             EndedOnReadFailure(j) =>
                 /\ jobs[j].status = "failed"
                 /\ jobs[j].progress.processed = 0
                 /\ proc[j].routed = {}
                 /\ j \notin DOMAIN jobResults
                 /\ ~ hasGeoJSONFile(resultsDir, j))

\* C32 witness: a job of an upload with rows has failed on the read of its
\* upload, which a cleanupJob call had unlinked, and is still in the
\* registry
C32_Witness ==
    \E j \in JobIds :
        /\ EndedOnReadFailure(j)
        /\ jobs[j].status = "failed"
        /\ jobs[j].progress.total > 0
        /\ proc[j].fileId \notin DOMAIN uploadDir

\* the line of the result that is written
LineIn == routeResult.route.geometry

\* C33: the feature of a successful result is written whatever the geometry
\* options are, with the properties of the result. With straightLineGeometry
\* and simplifyGeometry both true its geometry is the line of the first and
\* the last vertex of the route, not the simplified line; with
\* straightLineGeometry true a route of fewer than 2 vertices is written
\* unchanged; with exportGeometry false its geometry is null.
C33_StraightLineWins ==
    written # <<>> =>
        /\ Len(written) = 1
        /\ written[1].properties = PropertiesOf(routeResult)
        /\ (/\ geometryOptions.exportGeometry
            /\ geometryOptions.straightLineGeometry
            /\ geometryOptions.simplifyGeometry
            /\ Len(LineIn) >= 2) =>
               written[1].geometry =
                   [null |-> FALSE,
                    coordinates |-> <<LineIn[1], LineIn[Len(LineIn)]>>]
        /\ (/\ geometryOptions.exportGeometry
            /\ geometryOptions.straightLineGeometry
            /\ Len(LineIn) < 2) =>
               written[1].geometry =
                   [null |-> FALSE, coordinates |-> LineIn]
        /\ ~ geometryOptions.exportGeometry => written[1].geometry.null

\* C33 witness: a route whose simplification keeps an interior vertex is
\* written as its straight line, both options being true
C33_Witness ==
    /\ written # <<>>
    /\ geometryOptions.exportGeometry
    /\ geometryOptions.straightLineGeometry
    /\ geometryOptions.simplifyGeometry
    /\ geometryOptions.simplificationTolerance = 1
    /\ LineIn = <<<<0, 0>>, <<1, 2>>, <<2, 0>>>>
    /\ simplifyGeometry(LineIn, 1) = LineIn
    /\ written[1].geometry.coordinates = <<<<0, 0>>, <<2, 0>>>>

RECURSIVE IsSubsequence(_, _)
\* s is t with some of its elements left out
IsSubsequence(s, t) ==
    IF s = <<>> THEN TRUE
    ELSE IF t = <<>> THEN FALSE
    ELSE IF Head(s) = Head(t) THEN IsSubsequence(Tail(s), Tail(t))
    ELSE IsSubsequence(s, Tail(t))

\* no interior vertex of the line is farther than t from the segment of its
\* first and last vertex
WithinTolerance(line, t) ==
    \A i \in 2..(Len(line) - 1) :
        ~ Exceeds(pointToLineDistance(line[i], line[1], line[Len(line)]), t)

\* the feature written is that of the simplification policy alone
SimplifiedAlone ==
    /\ written # <<>>
    /\ geometryOptions.exportGeometry
    /\ ~ geometryOptions.straightLineGeometry
    /\ geometryOptions.simplifyGeometry

\* C34: under the simplification policy with a tolerance t > 0 the line
\* written is a subsequence of the route's line with the same first and last
\* vertex; it is the line of the first and the last vertex when no interior
\* vertex is farther than t from the segment between them; a line of fewer
\* than 3 vertices is written unchanged; with the tolerance 0 the line is
\* written unchanged.
C34_SimplificationKeepsEnds ==
    SimplifiedAlone =>
        LET out == written[1].geometry.coordinates
            t == geometryOptions.simplificationTolerance
        IN  /\ t > 0 =>
                  /\ IsSubsequence(out, LineIn)
                  /\ Len(LineIn) >= 1 =>
                         /\ Len(out) >= 1
                         /\ out[1] = LineIn[1]
                         /\ out[Len(out)] = LineIn[Len(LineIn)]
                  /\ (Len(LineIn) >= 3 /\ WithinTolerance(LineIn, t)) =>
                         out = <<LineIn[1], LineIn[Len(LineIn)]>>
                  /\ Len(LineIn) < 3 => out = LineIn
            /\ t = 0 => out = LineIn

\* C34 witness: a line of four vertices is simplified to three: the vertex
\* at distance 2 is kept and the one on the segment is dropped
C34_Witness ==
    /\ SimplifiedAlone
    /\ geometryOptions.simplificationTolerance = 1
    /\ LineIn = <<<<0, 0>>, <<1, 2>>, <<1, 0>>, <<2, 0>>>>
    /\ written[1].geometry.coordinates = <<<<0, 0>>, <<1, 2>>, <<2, 0>>>>

\* C35: when the process has exited after a SIGTERM or SIGINT, no job of the
\* registry is pending or processing: the shutdown has cancelled every job
\* that was not terminal.
C35_ShutdownCancelsJobs ==
    server = "exited" =>
        \A j \in DOMAIN jobs : jobs[j].status \in Terminal

\* the row is NaN or outside the latitudes -90..90 and longitudes -180..180
OutsideGlobalRange(c) ==
    \/ c.lat.kind = "nan" \/ c.lon.kind = "nan"
    \/ c.lat.tenths < -900 \/ c.lat.tenths > 900
    \/ c.lon.tenths < -1800 \/ c.lon.tenths > 1800

\* the row is outside the rectangle FRANCE_BOUNDS (41.0..51.5, -5.5..10.0)
OutsideFrance(c) ==
    \/ c.lat.tenths < 410 \/ c.lat.tenths > 515
    \/ c.lon.tenths < -55 \/ c.lon.tenths > 100

\* the entry of invalidRows the claim gives to an invalid row
ClaimedEntry(c) ==
    [rowIndex |-> c.rowIndex, lat |-> c.lat, lon |-> c.lon,
     reason |-> IF OutsideGlobalRange(c) THEN InvalidReason
                ELSE OutsideReason]

RECURSIVE ClaimedInvalidRows(_)
\* the invalid rows of the list, in the order of the list
ClaimedInvalidRows(coords) ==
    IF coords = <<>> THEN <<>>
    ELSE (IF OutsideGlobalRange(Head(coords)) \/ OutsideFrance(Head(coords))
          THEN <<ClaimedEntry(Head(coords))>> ELSE <<>>)
         \o ClaimedInvalidRows(Tail(coords))

\* C36: validateCoordinatesInFrance answers isValid exactly when invalidRows
\* is empty, invalidCount is the length of invalidRows, and invalidRows
\* holds, in the order of the input, exactly the rows that are NaN or outside
\* the global range (with the reason of invalid coordinates) and the rows of
\* the global range that are outside FRANCE_BOUNDS (with the reason of
\* outside France); for an empty input the four bounds are 0.
C36_ValidationReport ==
    validation.done =>
        /\ validation.isValid <=> (validation.invalidRows = <<>>)
        /\ validation.invalidCount = Len(validation.invalidRows)
        /\ validation.invalidRows = ClaimedInvalidRows(coordinateRows)
        /\ coordinateRows = <<>> =>
               validation.bounds =
                   [minLat |-> Num(0), maxLat |-> Num(0),
                    minLon |-> Num(0), maxLon |-> Num(0)]

\* C36 witness: of three rows the first is in France, the second is outside
\* the global range and the third is in it and outside France; the report
\* names the second and the third, each with its reason
C36_Witness ==
    /\ validation.done
    /\ Len(coordinateRows) = 3
    /\ ~ validation.isValid
    /\ validation.invalidCount = 2
    /\ validation.invalidRows[1].rowIndex = 1
    /\ validation.invalidRows[1].reason = InvalidReason
    /\ validation.invalidRows[1].lat = Num(910)
    /\ validation.invalidRows[2].rowIndex = 2
    /\ validation.invalidRows[2].reason = OutsideReason

\* C37: whichever handlers of the WebSocket server and broadcasts have run,
\* no job id of jobSubscriptions has an empty set of subscribers.
C37_NoEmptySubscriberSet ==
    \A jobId \in DOMAIN jobSubscriptions : jobSubscriptions[jobId] # {}

\* C37 witness: a client that was sent an update of a job is still connected
\* and the job has no set in the map: the set went with its last member
C37_Witness ==
    \E c \in Clients, jobId \in JobIds :
        /\ readyState[c] = "OPEN"
        /\ inbox[c] # <<>>
        /\ inbox[c][1].jobId = jobId
        /\ jobId \notin DOMAIN jobSubscriptions
        /\ DOMAIN jobSubscriptions # {}

\* the dispatcher of job j is past its last window
PastAllWindows(j) ==
    proc[j].pc \in {"save_open", "save_end", "save_stat", "save_unlink",
                    "done"}

\* the positions in the results of job j of the outcomes of row r (0-based)
OutcomesOfRow(j, r) ==
    {k \in 1..Len(proc[j].results) : proc[j].results[k].rowIndex = r}

\* C38: once the dispatcher of a job of the registry is past its last
\* window, its results hold exactly one outcome for each row of the upload
\* it read and none for anything else, the summary computed from them is the
\* job's processed, successful and failed counters, and it is the summary
\* in the result file when the file has been written in full.
C38_OneOutcomePerRow ==
    \A j \in DOMAIN jobs :
        PastAllWindows(j) =>
            /\ Len(proc[j].results) = Len(proc[j].fileData)
            /\ \A r \in 0..(Len(proc[j].fileData) - 1) :
                   Cardinality(OutcomesOfRow(j, r)) = 1
            /\ Summary(proc[j].results) =
                   [total |-> jobs[j].progress.processed,
                    successful |-> jobs[j].progress.successful,
                    failed |-> jobs[j].progress.failed]
            /\ (hasGeoJSONFile(resultsDir, j) /\ ResultFile(j).footer) =>
                   ResultFile(j).summary =
                       [total |-> jobs[j].progress.processed,
                        successful |-> jobs[j].progress.successful,
                        failed |-> jobs[j].progress.failed]

\* C38 witness: a job of two windows with a row failing the extraction, a
\* row failing the transformation, a routed row and a row whose request
\* failed has ended, and its result file is written in full
C38_Witness ==
    \E j \in DOMAIN jobs :
        /\ proc[j].pc = "done"
        /\ Len(proc[j].fileData) > BATCH_SIZE
        /\ \E r \in 1..Len(proc[j].fileData) : proc[j].fileData[r] = "bad"
        /\ \E r \in 1..Len(proc[j].fileData) : proc[j].fileData[r] = "xform"
        /\ jobs[j].progress.successful = 1
        /\ jobs[j].progress.failed = 3
        /\ hasGeoJSONFile(resultsDir, j) /\ ResultFile(j).footer

\* C39: once a cleanupJob(j) call has returned true, j has no record in the
\* registry, no stored results and no result file on disk, whatever its
\* dispatcher was doing when the call was made.
C39_CleanedStaysAbsent ==
    \A j \in JobIds :
        CleanupReturnedTrue(j) =>
            /\ j \notin DOMAIN jobs
            /\ j \notin DOMAIN jobResults
            /\ ~ hasGeoJSONFile(resultsDir, j)

\* the step is an operation on job i: a step of its dispatcher, of a
\* cancelJob or cleanupJob call for it, or of its immediate cleanup
OperationOn(i) ==
    \/ DispatcherStep(i)
    \/ cancelJob(i) \/ cancelHasFile(i) \/ cancelDelete(i)
    \/ cleanupJob(i) \/ cleanupDeleteFile(i) \/ cleanupHasFile(i)
    \/ cleanupDeleteGeo(i)
    \/ immediateDeleteFile(i) \/ immediatePurge(i)

\* what map M holds for key k
EntryAt(M, k) ==
    IF k \in DOMAIN M THEN [there |-> TRUE, entry |-> M[k]]
    ELSE [there |-> FALSE]

\* what the dispatcher of job j has still to read from the disk: the rows of
\* its upload as long as it has not read them
StillToRead(D, j) ==
    IF proc[j].pc = "parse" THEN parseFileData(D, proc[j].fileId)
    ELSE [null |-> FALSE, rows |-> <<>>]

\* C40: an operation on one job leaves every other job's record (status and
\* counters), stored results and result file as they are, and leaves what
\* the other job's dispatcher has still to read as it is, so that the other
\* job ends as it would have, also when the two jobs name the same upload.
C40_JobsIsolated ==
    [][\A i, j \in JobIds :
          (i # j /\ OperationOn(i)) =>
              /\ EntryAt(jobs', j) = EntryAt(jobs, j)
              /\ EntryAt(jobResults', j) = EntryAt(jobResults, j)
              /\ FileAt(resultsDir', getGeoJSONFilePath(j)) =
                     FileAt(resultsDir, getGeoJSONFilePath(j))
              /\ StillToRead(uploadDir', j) = StillToRead(uploadDir, j)]_vars
====
